---- MODULE Spec2Model ----
(***************************************************************************)
(* Model of the credit-negotiation marketplace: the Validation Gate        *)
(* (thirdparty/registry_util.py), the Broadcast Coordinator                *)
(* (company_agent/agent.py and company_agent/server.py) and the per-bank   *)
(* Offer Generator (bank_agents/bank_agent.py).                            *)
(*                                                                         *)
(* Units: amounts are whole dollars; interest rates are hundredths of a    *)
(* percent (4.5% = 450); ESG scores are hundredths (7.5 = 750).            *)
(***************************************************************************)
EXTENDS Integers, Sequences, FiniteSets, TLC

VARIABLES
    gate_pc, gate_intent, gate_result,
    bc_pc, bc_coord, bc_intent, bc_validation, discovered_banks,
    bc_tasks, bc_resp, bc_results, bc_offers, bc_sent, bc_endpoint, bc_first,
    bk_pc, bk_bank, bk_intent, bk_llm, bk_risk, bk_esg, bk_pricing, bk_offer,
    bk_error, bk_data,
    ns_calls, ns_input, ns_result,
    sc_pc, sc_evaluator, sc_offer, sc_intent, sc_eval,
    active_intents, received_offers, co_call, co_message, co_response,
    rk_pc, rk_offers, rk_result, rk_selection,
    reg_file, reg_req,
    a2a_agent, a2a_message, a2a_result

gateVars == <<gate_pc, gate_intent, gate_result>>
bcVars == <<bc_pc, bc_coord, bc_intent, bc_validation, discovered_banks,
            bc_tasks, bc_resp, bc_results, bc_offers, bc_sent, bc_endpoint,
            bc_first>>
bankVars == <<bk_pc, bk_bank, bk_intent, bk_llm, bk_risk, bk_esg, bk_pricing,
              bk_offer, bk_error, bk_data>>
normVars == <<ns_calls, ns_input, ns_result>>
scoreVars == <<sc_pc, sc_evaluator, sc_offer, sc_intent, sc_eval>>
companyVars == <<active_intents, received_offers, co_call, co_message, co_response>>
rankVars == <<rk_pc, rk_offers, rk_result, rk_selection>>
regVars == <<reg_file, reg_req>>
a2aVars == <<a2a_agent, a2a_message, a2a_result>>
vars == <<gateVars, bcVars, bankVars, normVars, scoreVars, companyVars, rankVars,
          regVars, a2aVars>>

(***************************************************************************)
(* Bounds                                                                  *)
(***************************************************************************)
MaxBanks == 3
\* Intents one company agent creates, and offers it keeps.
MaxIntents == 2
MaxOffers == 2
\* Offers in one call of evaluate_offers.
MaxRanked == 3
\* bankRegister requests the registry receives.
MaxRequests == 3

(***************************************************************************)
(* Validation Gate: thirdparty/registry_util.py validate_credit_intent     *)
(***************************************************************************)
MinLoanAmount == 1000
MaxLoanAmount == 10000000
MinDuration == 6
MaxDuration == 120
MaxDebtRatio == 5

NoRevenue == [present |-> FALSE, v |-> 0]
Revenue(n) == [present |-> TRUE, v |-> n]

\* The dicts posted to /validate-credit-intent.
GateAmounts == {0, 500, 999, 1000, 50000, 2000000, 10000000, 10000001}
GateDurations == {0, 5, 6, 60, 120, 121, 150}
GateRevenues == {NoRevenue, Revenue(0), Revenue(10000), Revenue(300000),
                 Revenue(400000), Revenue(2000000)}

\* CreditIntent(**intent_data): Field(..., gt=0) on amount and
\* Field(..., gt=0, le=120) on duration_months; annual_revenue is optional.
CreditIntentSchemaOK(amount, duration_months) ==
    /\ amount > 0
    /\ duration_months > 0
    /\ duration_months <= 120

BusinessRuleErrors(amount, duration_months, annual_revenue) ==
    (IF amount < MinLoanAmount THEN <<"Minimum loan amount is $1,000">> ELSE <<>>)
    \o (IF amount > MaxLoanAmount THEN <<"Maximum loan amount is $10,000,000">> ELSE <<>>)
    \o (IF duration_months < MinDuration THEN <<"Minimum loan duration is 6 months">> ELSE <<>>)
    \o (IF duration_months > MaxDuration THEN <<"Maximum loan duration is 120 months">> ELSE <<>>)
    \o (IF /\ annual_revenue.present
           /\ annual_revenue.v # 0
           /\ annual_revenue.v > 0
           /\ amount > MaxDebtRatio * annual_revenue.v
        THEN <<"Loan amount cannot exceed 5x annual revenue">> ELSE <<>>)

\* Mutant: the revenue-ratio rule is dropped.
validate_credit_intent_noratio(amount, duration_months, annual_revenue) ==
    IF ~CreditIntentSchemaOK(amount, duration_months)
    THEN [valid |-> FALSE, errors |-> <<"Schema validation error">>,
          message |-> "Invalid credit intent format"]
    ELSE LET errs == BusinessRuleErrors(amount, duration_months, NoRevenue)
         IN IF errs # <<>>
            THEN [valid |-> FALSE, errors |-> errs,
                  message |-> "Credit intent validation failed"]
            ELSE [valid |-> TRUE, errors |-> <<>>,
                  message |-> "Credit intent is valid"]

validate_credit_intent(amount, duration_months, annual_revenue) ==
    IF ~CreditIntentSchemaOK(amount, duration_months)
    THEN [valid |-> FALSE, errors |-> <<"Schema validation error">>,
          message |-> "Invalid credit intent format"]
    ELSE LET errs == BusinessRuleErrors(amount, duration_months, annual_revenue)
         IN IF errs # <<>>
            THEN [valid |-> FALSE, errors |-> errs,
                  message |-> "Credit intent validation failed"]
            ELSE [valid |-> TRUE, errors |-> <<>>,
                  message |-> "Credit intent is valid"]

NoIntent == [amount |-> 0, duration_months |-> 0, annual_revenue |-> NoRevenue]
NoResult == [valid |-> FALSE, errors |-> <<>>, message |-> ""]

GateInit ==
    /\ gate_pc = "idle"
    /\ gate_intent = NoIntent
    /\ gate_result = NoResult

\* POST /validate-credit-intent with one request body.
GateValidate ==
    /\ gate_pc = "idle"
    /\ \E a \in GateAmounts, d \in GateDurations, r \in GateRevenues :
          /\ gate_intent' = [amount |-> a, duration_months |-> d, annual_revenue |-> r]
          /\ gate_result' = validate_credit_intent(a, d, r)
    /\ gate_pc' = "done"

\* The endpoint is stateless: the next request starts afresh.
GateReset ==
    /\ gate_pc = "done"
    /\ gate_pc' = "idle"
    /\ gate_intent' = NoIntent
    /\ gate_result' = NoResult

(***************************************************************************)
(* Broadcast Coordinator: company_agent/agent.py CompanyAgent ("agent")    *)
(* and company_agent/server.py CompanyAgentServer ("server").              *)
(***************************************************************************)
Coordinators == {"agent", "server"}

Banks == 1..MaxBanks

\* CreditIntent objects the coordinator is called with (they satisfy the
\* CreditIntent schema: amount > 0, 0 < duration_months <= 120).
BcIntents ==
    { [amount |-> 50000, duration_months |-> 60, annual_revenue |-> NoRevenue],
      [amount |-> 500, duration_months |-> 60, annual_revenue |-> NoRevenue],
      [amount |-> 50000, duration_months |-> 3, annual_revenue |-> Revenue(2000000)],
      [amount |-> 2000000, duration_months |-> 60, annual_revenue |-> Revenue(300000)] }

\* What a bank endpoint may do with one request.
RespKinds == {"offer", "timeout", "neterr", "non200", "errstatus",
              "badoffer", "badjson", "emptybody"}
OfferRates == {450, 520}

NoResp == [kind |-> "none", rate |-> 0]
NoneResult == [kind |-> "none", bank |-> 0, rate |-> 0]
OfferResult(b, r) == [kind |-> "offer", bank |-> b, rate |-> r]

\* Mutant: the "status" field of a 200 response is not inspected.
send_credit_intent_to_bank_nostatus(bank, resp, rate) ==
    IF resp \in {"offer", "errstatus"} THEN OfferResult(bank, rate)
    ELSE NoneResult

\* CompanyAgent._send_credit_intent_to_bank: the task's return value.
send_credit_intent_to_bank(bank, resp, rate) ==
    IF resp = "offer" THEN OfferResult(bank, rate)   \* 200, status success, CreditOffer(**data["offer"])
    ELSE NoneResult                                  \* logged, falls through to return None

\* CompanyAgentServer.request_offer_from_bank: the task's return value.
request_offer_from_bank(bank, resp, rate) ==
    CASE resp = "offer"     -> OfferResult(bank, rate)            \* status 200: return await response.json()
      [] resp = "errstatus" -> [kind |-> "errbody", bank |-> bank, rate |-> 0]
      [] resp = "badoffer"  -> [kind |-> "badbody", bank |-> bank, rate |-> 0]
      [] resp = "emptybody" -> [kind |-> "empty", bank |-> bank, rate |-> 0]
      [] OTHER              -> NoneResult                         \* non-200 or exception: return None

IsException(result) == result.kind = "exception"
\* Python truthiness of a task result: None and {} are falsy.
Truthy(result) == result.kind \in {"offer", "errbody", "badbody"}

\* Mutant: the first failed bank aborts the collection.
CollectOffers_abort(results, n) ==
    IF \E i \in 1..n : IsException(results[i]) \/ ~Truthy(results[i])
    THEN <<>>
    ELSE [i \in 1..n |-> results[i]]

\* The result loop: skip exceptions, append every truthy result.
RECURSIVE CollectOffers(_, _)
CollectOffers(results, n) ==
    IF n = 0 THEN <<>>
    ELSE LET rest == CollectOffers(results, n - 1)
         IN IF IsException(results[n]) THEN rest
            ELSE IF Truthy(results[n]) THEN Append(rest, results[n])
            ELSE rest

NoValidation == [valid |-> FALSE, errors |-> <<>>, message |-> ""]

BcInit ==
    /\ bc_pc = "idle"
    /\ bc_coord = "agent"
    /\ bc_intent = NoIntent
    /\ bc_validation = NoValidation
    /\ discovered_banks = <<>>
    /\ bc_tasks = [b \in Banks |-> "none"]
    /\ bc_resp = [b \in Banks |-> NoResp]
    /\ bc_results = [b \in Banks |-> NoneResult]
    /\ bc_offers = <<>>
    /\ bc_sent = [b \in Banks |-> 0]
    /\ bc_endpoint = "none"
    /\ bc_first = 0

\* A caller invokes broadcast_credit_intent(intent) on one of the coordinators.
BcStart ==
    /\ bc_pc = "idle"
    /\ \E c \in Coordinators, i \in BcIntents :
          /\ bc_coord' = c
          /\ bc_intent' = i
          /\ bc_pc' = IF c = "agent" THEN "validating" ELSE "discovering"
    /\ bc_validation' = NoValidation
    /\ bc_tasks' = [b \in Banks |-> "none"]
    /\ bc_resp' = [b \in Banks |-> NoResp]
    /\ bc_results' = [b \in Banks |-> NoneResult]
    /\ bc_offers' = <<>>
    /\ bc_sent' = [b \in Banks |-> 0]
    /\ bc_endpoint' = "none"
    /\ bc_first' = 0
    /\ UNCHANGED discovered_banks

\* CompanyAgent._validate_credit_intent: the registry's answer, or the
\* substitute dict when the registry answers non-200 or cannot be reached.
ValidationAnswers(intent) ==
    { validate_credit_intent(intent.amount, intent.duration_months, intent.annual_revenue),
      [valid |-> FALSE, errors |-> <<"Registry validation failed">>, message |-> ""],
      [valid |-> FALSE, errors |-> <<"exception">>, message |-> ""] }

\* validation_result.get('valid', False)
ValidationPassed(validation_result) == validation_result.valid

\* agent.py lines 88-92: validate, raise ValueError when not valid.
BcValidate ==
    /\ bc_pc = "validating"
    /\ \E v \in ValidationAnswers(bc_intent) :
          /\ bc_validation' = v
          /\ IF ValidationPassed(v)
             THEN bc_pc' = "discovering" /\ bc_endpoint' = bc_endpoint
             ELSE bc_pc' = "raised" /\ bc_endpoint' = "http500"
    /\ UNCHANGED <<bc_coord, bc_intent, discovered_banks, bc_tasks, bc_resp,
                   bc_results, bc_offers, bc_sent,
                   bc_first>>

RECURSIVE BankList(_)
BankList(n) == IF n = 0 THEN <<>> ELSE Append(BankList(n - 1), n)

\* "if not self.discovered_banks: await self.discover_bank_agents()".  The
\* discovery yields n banks, or fails and leaves the list empty.  The agent
\* returns [] at once when the list is still empty; the server goes on.
BcDiscover ==
    /\ bc_pc = "discovering"
    /\ \E n \in 0..MaxBanks :
          /\ discovered_banks' = (IF discovered_banks # <<>> THEN discovered_banks
                                  ELSE BankList(n))
          /\ IF discovered_banks' = <<>> /\ bc_coord = "agent"
             THEN bc_pc' = "returned" /\ bc_endpoint' = "success"
             ELSE bc_pc' = "creating" /\ bc_endpoint' = bc_endpoint
    /\ UNCHANGED <<bc_coord, bc_intent, bc_validation, bc_tasks, bc_resp,
                   bc_results, bc_offers, bc_sent,
                   bc_first>>

NextToCreate ==
    IF \E b \in 1..Len(discovered_banks) : bc_tasks[b] = "none"
    THEN CHOOSE b \in 1..Len(discovered_banks) :
            /\ bc_tasks[b] = "none"
            /\ \A c \in 1..(b - 1) : bc_tasks[c] # "none"
    ELSE 0

\* One iteration of "for bank in self.discovered_banks: asyncio.create_task(...)".
BcCreateTask ==
    /\ bc_pc = "creating"
    /\ NextToCreate # 0
    /\ bc_tasks' = [bc_tasks EXCEPT ![NextToCreate] = "created"]
    /\ UNCHANGED <<bc_pc, bc_coord, bc_intent, bc_validation, discovered_banks,
                   bc_resp, bc_results, bc_offers, bc_sent, bc_endpoint,
                   bc_first>>

\* The loop is over: "await asyncio.gather(*tasks, return_exceptions=True)".
BcGather ==
    /\ bc_pc = "creating"
    /\ NextToCreate = 0
    /\ bc_pc' = "gathering"
    /\ UNCHANGED <<bc_coord, bc_intent, bc_validation, discovered_banks,
                   bc_tasks, bc_resp, bc_results, bc_offers, bc_sent, bc_endpoint,
                   bc_first>>

\* The event loop runs tasks only while the coordinator is suspended.
CoordinatorSuspended == bc_pc = "gathering"

\* Mutant: a task whose bank gave nothing is started once more.
BcTaskSend_retry(b) ==
    /\ CoordinatorSuspended
    /\ \/ bc_tasks[b] = "created"
       \/ bc_tasks[b] = "settled" /\ bc_results[b].kind = "none" /\ bc_sent[b] < 2
    /\ bc_tasks' = [bc_tasks EXCEPT ![b] = "inflight"]
    /\ bc_sent' = [bc_sent EXCEPT ![b] = @ + 1]
    /\ UNCHANGED <<bc_pc, bc_coord, bc_intent, bc_validation, discovered_banks,
                   bc_resp, bc_results, bc_offers, bc_endpoint,
                   bc_first>>

\* A task starts and issues its session.post(...).
BcTaskSend(b) ==
    /\ CoordinatorSuspended
    /\ bc_tasks[b] = "created"
    /\ bc_tasks' = [bc_tasks EXCEPT ![b] = "inflight"]
    /\ bc_sent' = [bc_sent EXCEPT ![b] = @ + 1]
    /\ UNCHANGED <<bc_pc, bc_coord, bc_intent, bc_validation, discovered_banks,
                   bc_resp, bc_results, bc_offers, bc_endpoint,
                   bc_first>>

\* The exchange with bank b ends (response, failure or the 30 s timeout) and
\* the task returns.
BcTaskSettle(b) ==
    /\ bc_tasks[b] = "inflight"
    /\ \E resp \in RespKinds, rate \in OfferRates :
          /\ resp # "offer" => rate = 450
          /\ bc_resp' = [bc_resp EXCEPT ![b] = [kind |-> resp, rate |-> rate]]
          /\ bc_results' = [bc_results EXCEPT ![b] =
                IF bc_coord = "agent"
                THEN send_credit_intent_to_bank(b, resp, rate)
                ELSE request_offer_from_bank(b, resp, rate)]
    /\ bc_tasks' = [bc_tasks EXCEPT ![b] = "settled"]
    /\ bc_first' = IF bc_first = 0 THEN b ELSE bc_first
    /\ UNCHANGED <<bc_pc, bc_coord, bc_intent, bc_validation, discovered_banks,
                   bc_offers, bc_sent, bc_endpoint>>

\* Mutant: gather resumes as soon as one task is done.
GatherDone_first ==
    \/ Len(discovered_banks) = 0
    \/ \E b \in 1..Len(discovered_banks) : bc_tasks[b] = "settled"

\* asyncio.gather resumes the coordinator when every awaited task is done.
GatherDone == \A b \in 1..Len(discovered_banks) : bc_tasks[b] = "settled"

\* Mutant: the result of the task that finished first is put first.
BcReturn_firstdone ==
    /\ bc_pc = "gathering"
    /\ GatherDone
    /\ bc_offers' =
          LET all == CollectOffers(bc_results, Len(discovered_banks))
          IN SelectSeq(all, LAMBDA o : o.bank = bc_first)
                \o SelectSeq(all, LAMBDA o : o.bank # bc_first)
    /\ bc_pc' = "returned"
    /\ bc_endpoint' = "success"
    /\ UNCHANGED <<bc_coord, bc_intent, bc_validation, discovered_banks,
                   bc_tasks, bc_resp, bc_results, bc_sent,
                   bc_first>>

\* gather returned: filter the results, return the offers; the HTTP route
\* answers {"status": "success", "offers": ...}.
BcReturn ==
    /\ bc_pc = "gathering"
    /\ GatherDone
    /\ bc_offers' = CollectOffers(bc_results, Len(discovered_banks))
    /\ bc_pc' = "returned"
    /\ bc_endpoint' = "success"
    /\ UNCHANGED <<bc_coord, bc_intent, bc_validation, discovered_banks,
                   bc_tasks, bc_resp, bc_results, bc_sent,
                   bc_first>>

\* The call is over and its locals (tasks, results, offers) are gone.  The
\* coordinator object lives on for the next broadcast; its list of
\* discovered banks may be refreshed from outside (the discovery route).
BcFinish ==
    /\ bc_pc \in {"returned", "raised"}
    /\ bc_pc' = "idle"
    /\ \E keep \in BOOLEAN :
          discovered_banks' = IF keep THEN discovered_banks ELSE <<>>
    /\ bc_intent' = NoIntent
    /\ bc_validation' = NoValidation
    /\ bc_tasks' = [b \in Banks |-> "none"]
    /\ bc_resp' = [b \in Banks |-> NoResp]
    /\ bc_results' = [b \in Banks |-> NoneResult]
    /\ bc_offers' = <<>>
    /\ bc_sent' = [b \in Banks |-> 0]
    /\ bc_endpoint' = "none"
    /\ bc_first' = 0
    /\ UNCHANGED bc_coord

(***************************************************************************)
(* Offer Generator: bank_agents/bank_agent.py BankFinanceAgent             *)
(***************************************************************************)
\* JSON values as Python sees them after json.loads.
JAbsent == [t |-> "absent", n |-> 0, s |-> <<>>]
JNull == [t |-> "null", n |-> 0, s |-> <<>>]
JNum(x) == [t |-> "num", n |-> x, s |-> <<>>]
JStr(str) == [t |-> "str", n |-> 0, s |-> str]
IsNum(j) == j.t = "num"
IsStr(j) == j.t = "str"

\* recommended_maximum_exposure: a scalar, or an object whose "amount"
\* member is the scalar a.
Scalar(j) == [t |-> j.t, n |-> j.n, s |-> j.s, a |-> JAbsent]
JObj(amount) == [t |-> "obj", n |-> 0, s |-> <<>>, a |-> amount]

Digits == {"0", "1", "2", "3", "4", "5", "6", "7", "8", "9"}
DigitValue(c) ==
    CASE c = "0" -> 0 [] c = "1" -> 1 [] c = "2" -> 2 [] c = "3" -> 3
      [] c = "4" -> 4 [] c = "5" -> 5 [] c = "6" -> 6 [] c = "7" -> 7
      [] c = "8" -> 8 [] c = "9" -> 9

\* str.replace(ch, '')
Remove(str, ch) == SelectSeq(str, LAMBDA c : c # ch)

\* str.startswith('$')
StartsWithDollar(str) == Len(str) > 0 /\ str[1] = "$"

RECURSIVE DecimalValue(_)
DecimalValue(str) ==
    IF str = <<>> THEN 0
    ELSE 10 * DecimalValue(SubSeq(str, 1, Len(str) - 1)) + DigitValue(str[Len(str)])

\* float(str) for the strings of the model: a non-empty run of digits is a
\* number, anything else raises ValueError.
ParseFloat(str) ==
    IF str # <<>> /\ \A k \in 1..Len(str) : str[k] \in Digits
    THEN [ok |-> TRUE, v |-> DecimalValue(str)]
    ELSE [ok |-> FALSE, v |-> 0]

\* float(max_exposure.replace('$', '').replace(',', ''))
ParseCurrency(str) == ParseFloat(Remove(Remove(str, "$"), ","))

Ok(v) == [err |-> "", val |-> v]
Raise(e) == [err |-> e, val |-> JAbsent]

\* The coercion of recommended_maximum_exposure shared by
\* process_credit_intent (lines 69-73, default 0) and _generate_offer
\* (lines 523-527, default intent.amount): only a dict is unwrapped, and only
\* a '$' string found inside the dict is parsed.
CoerceExposure(exposure, default) ==
    IF exposure.t = "obj"
    THEN LET inner == IF exposure.a.t = "absent" THEN JNum(default) ELSE exposure.a
         IN IF IsStr(inner) /\ StartsWithDollar(inner.s)
            THEN LET p == ParseCurrency(inner.s)
                 IN IF p.ok THEN Ok(JNum(p.v)) ELSE Raise("ValueError: float()")
            ELSE Ok(inner)
    ELSE IF exposure.t = "absent" THEN Ok(JNum(default))
    ELSE Ok([t |-> exposure.t, n |-> exposure.n, s |-> exposure.s])

\* ---- the narrative collaborator's answer --------------------------------
\* A response is a token sequence: "FENCE_JSON" and "FENCE" are the opening
\* and closing markers of a fenced block, "PROSE" is free text, and "BODY"
\* stands for the text whose kind body_kind gives.
Wrappers == { <<"BODY">>,
              <<"FENCE_JSON", "BODY", "FENCE">>,
              <<"FENCE", "BODY", "FENCE">>,
              <<"PROSE", "FENCE_JSON", "BODY", "FENCE">> }

\* content[7:] / content[3:] / content[:-3] on the fence markers.
StripFences(content) ==
    LET c1 == IF content # <<>> /\ Head(content) = "FENCE_JSON" THEN Tail(content) ELSE content
        c2 == IF c1 # <<>> /\ Head(c1) = "FENCE" THEN Tail(c1) ELSE c1
        c3 == IF c2 # <<>> /\ c2[Len(c2)] = "FENCE" THEN SubSeq(c2, 1, Len(c2) - 1) ELSE c2
    IN c3

\* json.loads(content): "object", "nonobject" (a JSON array, number, string
\* or null) or "prose" (JSONDecodeError).
JsonLoads(content, body_kind) ==
    IF StripFences(content) = <<"BODY">> THEN body_kind ELSE "prose"

\* ---- third-party snapshots ----------------------------------------------
\* What a provider (credit bureau, market info, ESG regulator) does with one
\* inquiry: 200 with a well-formed body, 200 with a body its schema rejects,
\* another status, or no answer (connection error, timeout).
ProviderResponses == {"data", "baddata", "non200", "unreachable"}

\* _get_credit_bureau_data, _get_market_data, _get_esg_regulator_data: the
\* snapshot object on a well-formed 200 answer, None in every other case
\* (TRUE: a snapshot, FALSE: None).
get_third_party_data(resp) == resp = "data"

\* The snapshots fetched so far for the intent in progress.
Snapshot(present) == IF present THEN "data" ELSE "None"
NoData == [credit_bureau |-> "unfetched", market |-> "unfetched",
           esg_regulator |-> "unfetched"]

\* ---- Step 2: _assess_credit_risk ----------------------------------------
FallbackExposure == 1000000
DefaultConfidence == 70

\* (overall_risk_rating, risk_rating) as the collaborator may give them.
RatingFields == { <<"low", "absent">>, <<"medium", "absent">>, <<"high", "absent">>,
                  <<"absent", "high">>, <<"absent", "absent">> }
ConfidenceFields == {JAbsent, JNum(85)}
ExposureFields ==
    { Scalar(JAbsent), Scalar(JNum(30000)), Scalar(JNum(1000000)), Scalar(JNum(0)),
      Scalar(JNull),
      Scalar(JStr(<<"$", "4", "0", ",", "0", "0", "0">>)),
      JObj(JNum(30000)), JObj(JAbsent),
      JObj(JStr(<<"$", "4", "0", ",", "0", "0", "0">>)),
      JObj(JStr(<<"4", "0", "0", "0", "0">>)),
      JObj(JStr(<<"$", "4", "0", "k">>)) }

\* The collaborator's answers to the risk prompt: the call raises; prose,
\* bare or around a fenced block; a JSON value that is not an object; a JSON
\* object, bare or fenced, with the fields varied.
RiskResp(invoked, content, body_kind, rating, confidence, exposure) ==
    [invoked |-> invoked, content |-> content, body_kind |-> body_kind,
     rating |-> rating, confidence |-> confidence, exposure |-> exposure]
RiskResponses ==
    { RiskResp(FALSE, <<"BODY">>, "prose", <<"absent", "absent">>, JAbsent, Scalar(JAbsent)) }
    \cup { RiskResp(TRUE, w, "prose", <<"absent", "absent">>, JAbsent, Scalar(JAbsent))
            : w \in Wrappers }
    \cup { RiskResp(TRUE, <<"BODY">>, "nonobject", <<"absent", "absent">>, JAbsent,
                    Scalar(JAbsent)) }
    \cup { RiskResp(TRUE, w, "object", <<"high", "absent">>, JNum(85), Scalar(JNum(30000)))
            : w \in Wrappers }
    \cup { RiskResp(TRUE, <<"BODY">>, "object", r, c, Scalar(JAbsent))
            : r \in RatingFields, c \in ConfidenceFields }
    \cup { RiskResp(TRUE, <<"BODY">>, "object", <<"medium", "absent">>, JAbsent, x)
            : x \in ExposureFields }

NoRisk == [overall_risk_rating |-> "none", confidence_score |-> JAbsent,
           recommended_maximum_exposure |-> Scalar(JAbsent),
           credit_bureau_data |-> FALSE, fallback |-> FALSE]

\* The dict built in the "except json.JSONDecodeError" branch (lines 270-291).
FallbackRisk(amount, credit_data) ==
    [overall_risk_rating |-> "medium", confidence_score |-> JNum(DefaultConfidence),
     recommended_maximum_exposure |-> Scalar(JNum(FallbackExposure)),
     credit_bureau_data |-> credit_data, fallback |-> TRUE]

\* _assess_credit_risk.  invoked = FALSE: self.llm.invoke raised.
assess_credit_risk(amount, credit_data, resp) ==
    LET invoked == resp.invoked
        content == resp.content
        body_kind == resp.body_kind
        rating == resp.rating
        confidence == resp.confidence
        exposure == resp.exposure
    IN
    IF ~invoked THEN [err |-> "risk:llm_raised", val |-> NoRisk]
    ELSE CASE JsonLoads(content, body_kind) = "prose" ->
                [err |-> "", val |-> FallbackRisk(amount, credit_data)]
           [] JsonLoads(content, body_kind) = "nonobject" ->
                [err |-> "risk:not_object", val |-> NoRisk]
           [] OTHER ->
                [err |-> "",
                 val |-> [overall_risk_rating |->
                              IF rating[1] # "absent" THEN rating[1]
                              ELSE IF rating[2] # "absent" THEN rating[2]
                              ELSE "medium",
                          confidence_score |->
                              IF confidence.t = "absent" THEN JNum(DefaultConfidence)
                              ELSE confidence,
                          recommended_maximum_exposure |->
                              IF exposure.t = "absent" THEN Scalar(JNum(amount))
                              ELSE exposure,
                          credit_bureau_data |-> credit_data,
                          fallback |-> FALSE]]

\* process_credit_intent lines 69-74: coerce and print f"{max_exposure:,.2f}".
PrintExposure(risk) ==
    LET c == CoerceExposure(risk.recommended_maximum_exposure, 0)
    IN IF c.err # "" THEN "risk:exposure_parse"
       ELSE IF ~IsNum(c.val) THEN "risk:exposure_format"
       ELSE ""

\* ---- Step 3: _calculate_esg_score ---------------------------------------
\* ESG scores in hundredths: 7.5 = 750, the 0-100 answer 75 = 7500.
ScoreFields ==
    { JAbsent, JNum(750), JNum(900), JNum(7500), JNum(15000), JNum(-100), JNull,
      JStr(<<"8", "5">>), JStr(<<"h", "i", "g", "h">>) }
\* (social, governance, overall) as the collaborator may give them.
OtherScoreFields ==
    { <<JAbsent, JAbsent, JAbsent>>,
      <<JNum(700), JNum(800), JNum(500)>>,
      <<JNum(6000), JNum(8000), JNum(9000)>> }
CategoryFields == {"absent", "low"}

EsgResp(invoked, content, body_kind, env, others, category) ==
    [invoked |-> invoked, content |-> content, body_kind |-> body_kind,
     env |-> env, others |-> others, category |-> category]
NoScores == <<JAbsent, JAbsent, JAbsent>>
EsgResponses ==
    { EsgResp(FALSE, <<"BODY">>, "prose", JAbsent, NoScores, "absent") }
    \cup { EsgResp(TRUE, w, "prose", JAbsent, NoScores, "absent") : w \in Wrappers }
    \cup { EsgResp(TRUE, <<"BODY">>, "nonobject", JAbsent, NoScores, "absent") }
    \cup { EsgResp(TRUE, w, "object", JNum(900), NoScores, "low") : w \in Wrappers }
    \cup { EsgResp(TRUE, <<"BODY">>, "object", e, NoScores, "absent") : e \in ScoreFields }
    \cup { EsgResp(TRUE, <<"BODY">>, "object", JAbsent, o, c)
            : o \in OtherScoreFields, c \in CategoryFields }

\* Mutant: every number is divided by 10.
normalize_score_always(score) ==
    CASE score.t = "null" -> 0
      [] score.t = "str" -> LET p == ParseFloat(score.s)
                            IN IF ~p.ok THEN 0 ELSE (100 * p.v) \div 10
      [] OTHER -> score.n \div 10

\* normalize_score (lines 372-384): None -> 0.0, a string is parsed (0.0 when
\* it is not a number), a number above 10 is divided by 10.
normalize_score(score) ==
    CASE score.t = "null" -> 0
      [] score.t = "str" -> LET p == ParseFloat(score.s)
                            IN IF ~p.ok THEN 0
                               ELSE IF 100 * p.v > 1000 THEN (100 * p.v) \div 10
                               ELSE 100 * p.v
      [] OTHER -> IF score.n > 1000 THEN score.n \div 10 ELSE score.n

\* esg_data.get(key, default)
GetOr(field, default) == IF field.t = "absent" THEN JNum(default) ELSE field

\* ESGScore: every score Field(..., ge=0, le=10).
ESGScoreSchemaOK(e) ==
    \A x \in {e.environmental_score, e.social_score, e.governance_score,
              e.overall_score} : x >= 0 /\ x <= 1000

NoESG == [environmental_score |-> 0, social_score |-> 0, governance_score |-> 0,
          overall_score |-> 0, carbon_footprint_category |-> "none"]

ESGFromData(env, others, category) ==
    [environmental_score |-> normalize_score(GetOr(env, 750)),
     social_score |-> normalize_score(GetOr(others[1], 700)),
     governance_score |-> normalize_score(GetOr(others[2], 800)),
     overall_score |-> normalize_score(GetOr(others[3], 750)),
     carbon_footprint_category |-> IF category = "absent" THEN "medium" ELSE category]

\* _calculate_esg_score.  invoked = FALSE: self.llm.invoke raised.
calculate_esg_score(resp) ==
    LET invoked == resp.invoked
        content == resp.content
        body_kind == resp.body_kind
        env == resp.env
        others == resp.others
        category == resp.category
    IN
    IF ~invoked THEN [err |-> "esg:llm_raised", val |-> NoESG]
    ELSE CASE JsonLoads(content, body_kind) = "nonobject" ->
                [err |-> "esg:not_object", val |-> NoESG]
           [] OTHER ->
                LET e == IF JsonLoads(content, body_kind) = "prose"
                         THEN ESGFromData(JNum(750), <<JNum(700), JNum(800), JNum(750)>>,
                                          "medium")
                         ELSE ESGFromData(env, others, category)
                IN IF ESGScoreSchemaOK(e) THEN [err |-> "", val |-> e]
                   ELSE [err |-> "esg:schema", val |-> NoESG]

\* ---- Step 4: _determine_pricing -----------------------------------------
MinRate == 10      \* 0.1 %
MaxRate == 5000    \* 50 %

RateFields == { JAbsent, JNum(468), JNum(0), JNum(-100), JNum(5), JNum(5000),
                JNum(5001), JNull }
BaseRateFields == { JAbsent, JNum(450), JNum(0), JNull }
AdjustmentFields == { JAbsent, JNum(50) }

PricingResp(invoked, content, body_kind, base, radj, eadj, rate) ==
    [invoked |-> invoked, content |-> content, body_kind |-> body_kind,
     base |-> base, radj |-> radj, eadj |-> eadj, rate |-> rate]
PricingResponses ==
    { PricingResp(FALSE, <<"BODY">>, "prose", JAbsent, JAbsent, JAbsent, JAbsent) }
    \cup { PricingResp(TRUE, w, "prose", JAbsent, JAbsent, JAbsent, JAbsent)
            : w \in Wrappers }
    \cup { PricingResp(TRUE, <<"BODY">>, "nonobject", JAbsent, JAbsent, JAbsent, JAbsent) }
    \cup { PricingResp(TRUE, w, "object", JNum(450), JNum(50), JNum(-32), JNum(468))
            : w \in Wrappers }
    \cup { PricingResp(TRUE, <<"BODY">>, "object", b, JAbsent, JAbsent, r)
            : b \in BaseRateFields, r \in RateFields }
    \cup { PricingResp(TRUE, <<"BODY">>, "object", JAbsent, a, JNull, JAbsent)
            : a \in AdjustmentFields }

PyMax(a, b) == IF b > a THEN b ELSE a

NoPricing == [base_rate |-> JAbsent, risk_adjustment |-> JAbsent,
              esg_adjustment |-> JAbsent, carbon_adjusted_rate |-> JAbsent,
              pricing_confidence |-> JAbsent]

\* Mutant: the 50 % cap is missing.
ClampRate_nocap(pricing, min_interest_rate) ==
    IF ~IsNum(pricing.carbon_adjusted_rate)
    THEN [err |-> "pricing:compare", val |-> NoPricing]
    ELSE [err |-> "",
          val |-> IF pricing.carbon_adjusted_rate.n <= 0
                  THEN [pricing EXCEPT !.carbon_adjusted_rate =
                            JNum(PyMax(MinRate, min_interest_rate))]
                  ELSE pricing]

\* Lines 498-506: repair a rate <= 0, then cap at 50.  Comparing None or a
\* string with 0 raises TypeError.
ClampRate(pricing, min_interest_rate) ==
    IF ~IsNum(pricing.carbon_adjusted_rate)
    THEN [err |-> "pricing:compare", val |-> NoPricing]
    ELSE LET p1 == IF pricing.carbon_adjusted_rate.n <= 0
                   THEN [pricing EXCEPT !.carbon_adjusted_rate =
                            JNum(PyMax(MinRate, min_interest_rate))]
                   ELSE pricing
             p2 == IF p1.carbon_adjusted_rate.n > MaxRate
                   THEN [p1 EXCEPT !.carbon_adjusted_rate = JNum(MaxRate)]
                   ELSE p1
         IN [err |-> "", val |-> p2]

\* The "ensure required fields exist" block (lines 473-484).  The answers of
\* the model never carry pricing_confidence, so it always takes its default.
FillPricing(base, radj, eadj, rate, min_interest_rate) ==
    LET b == IF base.t = "absent" THEN JNum(min_interest_rate) ELSE base
    IN [base_rate |-> b,
        risk_adjustment |-> IF radj.t = "absent" THEN JNum(0) ELSE radj,
        esg_adjustment |-> IF eadj.t = "absent" THEN JNum(0) ELSE eadj,
        carbon_adjusted_rate |-> IF rate.t = "absent" THEN b ELSE rate,
        pricing_confidence |-> JNum(75)]

\* The dict built in the "except json.JSONDecodeError" branch (lines 489-496).
FallbackPricing(min_interest_rate) ==
    [base_rate |-> JNum(min_interest_rate),
     risk_adjustment |-> JNum(50),
     esg_adjustment |-> JNum(-20),
     carbon_adjusted_rate |-> JNum(min_interest_rate + 30),
     pricing_confidence |-> JNum(75)]

\* _determine_pricing.  The prompt is built first: line 434 calls .get on
\* risk_assessment['credit_bureau_data'], which is None when the bureau gave
\* no data.  A failed llm.invoke is replaced by the content "{}".
determine_pricing(risk, min_interest_rate, resp) ==
    LET invoked == resp.invoked
        content == resp.content
        body_kind == resp.body_kind
        base == resp.base
        radj == resp.radj
        eadj == resp.eadj
        rate == resp.rate
    IN
    IF ~risk.credit_bureau_data
    THEN [err |-> "pricing:credit_bureau_data is None", val |-> NoPricing]
    ELSE LET kind == IF invoked THEN JsonLoads(content, body_kind) ELSE "object"
             b == IF invoked THEN base ELSE JAbsent
             ra == IF invoked THEN radj ELSE JAbsent
             ea == IF invoked THEN eadj ELSE JAbsent
             r == IF invoked THEN rate ELSE JAbsent
         IN CASE kind = "nonobject" -> [err |-> "pricing:not_object", val |-> NoPricing]
              [] kind = "prose" -> ClampRate(FallbackPricing(min_interest_rate),
                                             min_interest_rate)
              [] OTHER -> ClampRate(FillPricing(b, ra, ea, r, min_interest_rate),
                                    min_interest_rate)

\* process_credit_intent lines 91-95: the ":.2f" prints need numbers.
PrintPricing(pricing) ==
    IF /\ IsNum(pricing.base_rate)
       /\ IsNum(pricing.risk_adjustment)
       /\ IsNum(pricing.esg_adjustment)
       /\ IsNum(pricing.carbon_adjusted_rate)
    THEN "" ELSE "pricing:format"

\* ---- Step 5: _generate_offer --------------------------------------------
NoOffer == [approved_amount |-> 0, interest_rate |-> 0, carbon_adjusted_rate |-> 0,
            esg_score |-> NoESG]

\* Python min(a, b): b only when b < a.
PyMin(a, b) == IF b < a THEN b ELSE a

\* CreditOffer: approved_amount, interest_rate and carbon_adjusted_rate are
\* all Field(..., gt=0).
CreditOfferSchemaOK(o) ==
    /\ o.approved_amount > 0
    /\ o.interest_rate > 0
    /\ o.carbon_adjusted_rate > 0

\* approved_amount = min(intent.amount, max_exposure)   (line 528)
ApprovedAmount(amount, max_exposure, max_loan_amount) ==
    PyMin(amount, max_exposure)

generate_offer(amount, bank, risk, esg, pricing) ==
    LET c == CoerceExposure(risk.recommended_maximum_exposure, amount)
    IN IF c.err # "" THEN [err |-> "offer:exposure_parse", val |-> NoOffer]
       ELSE IF ~IsNum(c.val) THEN [err |-> "offer:exposure_compare", val |-> NoOffer]
       ELSE LET base_rate == pricing.base_rate.n
                rate0 == pricing.carbon_adjusted_rate.n
                carbon_rate == IF rate0 <= 0 THEN PyMax(MinRate, base_rate) ELSE rate0
                o == [approved_amount |-> ApprovedAmount(amount, c.val.n,
                                                         bank.max_loan_amount),
                      interest_rate |-> base_rate,
                      carbon_adjusted_rate |-> carbon_rate,
                      esg_score |-> esg]
            IN IF CreditOfferSchemaOK(o) THEN [err |-> "", val |-> o]
               ELSE [err |-> "offer:schema", val |-> NoOffer]

\* ---- process_credit_intent ----------------------------------------------
BankConfigs ==
    { [min_interest_rate |-> 450, max_loan_amount |-> 100000],
      [min_interest_rate |-> 450, max_loan_amount |-> 5000000],
      [min_interest_rate |-> 0, max_loan_amount |-> 5000000],
      [min_interest_rate |-> 6000, max_loan_amount |-> 5000000] }
\* Requested amounts of intents that pass the Validation Gate.
IntentAmounts == {20000, 50000, 2000000}

NoLLM == [risk |-> "none", esg |-> "none", pricing |-> "none", rate |-> JAbsent,
          confidence |-> JAbsent, exposure |-> Scalar(JAbsent),
          scores |-> <<JAbsent, JAbsent, JAbsent, JAbsent>>,
          base |-> JAbsent, radj |-> JAbsent, eadj |-> JAbsent]
\* What a stage saw of the collaborator: the call raised, or the kind of
\* text json.loads was given.
Seen(resp) ==
    IF resp.invoked THEN JsonLoads(resp.content, resp.body_kind) ELSE "raised"

BankInit ==
    /\ bk_pc = "idle"
    /\ bk_bank = [min_interest_rate |-> 450, max_loan_amount |-> 100000]
    /\ bk_intent = [amount |-> 0]
    /\ bk_llm = NoLLM
    /\ bk_risk = NoRisk
    /\ bk_esg = NoESG
    /\ bk_pricing = NoPricing
    /\ bk_offer = NoOffer
    /\ bk_error = ""
    /\ bk_data = NoData

\* A bank process, constructed with its configuration, receives an intent.
BkReceive ==
    /\ bk_pc = "idle"
    /\ \E cfg \in BankConfigs, a \in IntentAmounts :
          /\ bk_bank' = cfg
          /\ bk_intent' = [amount |-> a]
    /\ bk_pc' = "identity"
    /\ UNCHANGED <<bk_llm, bk_risk, bk_esg, bk_pricing, bk_offer, bk_error, bk_data>>

\* _verify_company_identity: sleeps, then returns True.
verify_company_identity == TRUE

\* Step 1.
BkVerifyIdentity ==
    /\ bk_pc = "identity"
    /\ IF verify_company_identity
       THEN bk_pc' = "risk" /\ bk_error' = bk_error
       ELSE bk_pc' = "failed" /\ bk_error' = "identity"
    /\ UNCHANGED <<bk_bank, bk_intent, bk_llm, bk_risk, bk_esg, bk_pricing, bk_offer,
                   bk_data>>

\* Step 2: _assess_credit_risk, then the prints of lines 67-74.
BkAssessRisk ==
    /\ bk_pc = "risk"
    /\ \E bureau \in ProviderResponses, market \in ProviderResponses,
          resp \in RiskResponses :
          LET credit_data == get_third_party_data(bureau)
              market_data == get_third_party_data(market)
              r == assess_credit_risk(bk_intent.amount, credit_data, resp)
              e == IF r.err # "" THEN r.err ELSE PrintExposure(r.val)
          IN /\ bk_data' = [bk_data EXCEPT !.credit_bureau = Snapshot(credit_data),
                                            !.market = Snapshot(market_data)]
             /\ bk_llm' = IF Seen(resp) = "object"
                           THEN [bk_llm EXCEPT !.risk = "object",
                                               !.confidence = resp.confidence,
                                               !.exposure = resp.exposure]
                           ELSE [bk_llm EXCEPT !.risk = Seen(resp)]
             /\ bk_risk' = r.val
             /\ bk_error' = e
             /\ bk_pc' = IF e = "" THEN "esg" ELSE "failed"
    /\ UNCHANGED <<bk_bank, bk_intent, bk_esg, bk_pricing, bk_offer>>

\* Step 3: _calculate_esg_score.
BkCalculateEsg ==
    /\ bk_pc = "esg"
    /\ \E regulator \in ProviderResponses, resp \in EsgResponses :
          LET bank_esg_data == get_third_party_data(regulator)
              r == calculate_esg_score(resp)
          IN /\ bk_data' = [bk_data EXCEPT !.esg_regulator = Snapshot(bank_esg_data)]
             /\ bk_llm' = IF Seen(resp) = "object"
                           THEN [bk_llm EXCEPT !.esg = "object",
                                               !.scores = <<resp.env>> \o resp.others]
                           ELSE [bk_llm EXCEPT !.esg = Seen(resp)]
             /\ bk_esg' = r.val
             /\ bk_error' = r.err
             /\ bk_pc' = IF r.err = "" THEN "pricing" ELSE "failed"
    /\ UNCHANGED <<bk_bank, bk_intent, bk_risk, bk_pricing, bk_offer>>

\* Step 4: _determine_pricing, then the prints of lines 91-95.
BkDeterminePricing ==
    /\ bk_pc = "pricing"
    /\ \E resp \in PricingResponses :
          LET r == determine_pricing(bk_risk, bk_bank.min_interest_rate, resp)
              e == IF r.err # "" THEN r.err ELSE PrintPricing(r.val)
          IN /\ bk_llm' = IF ~bk_risk.credit_bureau_data
                           THEN bk_llm    \* the prompt was never sent
                           ELSE IF Seen(resp) = "object"
                           THEN [bk_llm EXCEPT !.pricing = "object",
                                               !.rate = resp.rate,
                                               !.base = resp.base,
                                               !.radj = resp.radj,
                                               !.eadj = resp.eadj]
                           ELSE [bk_llm EXCEPT !.pricing = Seen(resp)]
             /\ bk_pricing' = IF e = "" THEN r.val ELSE NoPricing
             /\ bk_error' = e
             /\ bk_pc' = IF e = "" THEN "offer" ELSE "failed"
    /\ UNCHANGED <<bk_bank, bk_intent, bk_risk, bk_esg, bk_offer, bk_data>>

\* Mutant: a failed assembly goes back to the pricing stage.
BkGenerateOffer_retry ==
    /\ bk_pc = "offer"
    /\ LET r == generate_offer(bk_intent.amount, bk_bank, bk_risk, bk_esg, bk_pricing)
       IN /\ bk_offer' = r.val
          /\ bk_error' = r.err
          /\ bk_pc' = IF r.err = "" THEN "done" ELSE "pricing"
    /\ UNCHANGED <<bk_bank, bk_intent, bk_llm, bk_risk, bk_esg, bk_pricing, bk_data>>

\* Step 5: _generate_offer; the offer is returned, or the exception is
\* re-raised by the except clause of process_credit_intent.
BkGenerateOffer ==
    /\ bk_pc = "offer"
    /\ LET r == generate_offer(bk_intent.amount, bk_bank, bk_risk, bk_esg, bk_pricing)
       IN /\ bk_offer' = r.val
          /\ bk_error' = r.err
          /\ bk_pc' = IF r.err = "" THEN "done" ELSE "failed"
    /\ UNCHANGED <<bk_bank, bk_intent, bk_llm, bk_risk, bk_esg, bk_pricing, bk_data>>

\* The agent keeps no state between intents.
BkReset ==
    /\ bk_pc \in {"done", "failed"}
    /\ bk_pc' = "idle"
    /\ bk_intent' = [amount |-> 0]
    /\ bk_llm' = NoLLM
    /\ bk_risk' = NoRisk
    /\ bk_esg' = NoESG
    /\ bk_pricing' = NoPricing
    /\ bk_offer' = NoOffer
    /\ bk_error' = ""
    /\ bk_data' = NoData
    /\ UNCHANGED bk_bank

(***************************************************************************)
(* normalize_score on its own: the helper of _calculate_esg_score applied  *)
(* to one value, and applied again to its own result.                      *)
(***************************************************************************)
\* Scores in hundredths.  Every value of the 0-10 scale with two decimals,
\* every value of the 0-100 scale with one decimal (so that the division by
\* 10 is exact in hundredths), values outside 0..100 and the non-numbers.
NormInputs ==
    { JNum(n) : n \in 0..1000 }
    \cup { JNum(10 * k) : k \in 101..1000 }
    \cup { JNum(-100), JNum(10010), JNum(15000), JNum(100000) }
    \cup { JNull, JStr(<<"8", "5">>), JStr(<<"7">>), JStr(<<"h", "i", "g", "h">>) }

NormInit ==
    /\ ns_calls = 0
    /\ ns_input = JAbsent
    /\ ns_result = 0

\* normalize_score(esg_data.get(key, default)) on one value.
NsNormalize ==
    /\ ns_calls = 0
    /\ \E score \in NormInputs :
          /\ ns_input' = score
          /\ ns_result' = normalize_score(score)
    /\ ns_calls' = 1

\* The normalized value is normalized once more.
NsNormalizeAgain ==
    /\ ns_calls = 1
    /\ ns_result' = normalize_score(JNum(ns_result))
    /\ ns_calls' = 2
    /\ UNCHANGED ns_input

NsReset ==
    /\ ns_calls = 2
    /\ ns_calls' = 0
    /\ ns_input' = JAbsent
    /\ ns_result' = 0

(***************************************************************************)
(* Offer Evaluator: company_agent/wfap_company_agent.py WFAPCompanyAgent   *)
(* ("wfap") and company_agent/skills.py CompanyFinanceAgent ("skills").    *)
(*                                                                         *)
(* Evaluation scores count 1/100000 of a point (100 points = 10000000), so *)
(* that the weights 0.4, 0.35, 0.3, 0.25 ... applied to rates and ESG      *)
(* scores in hundredths and to amounts that are multiples of 10 dollars    *)
(* give exact integers.                                                    *)
(***************************************************************************)
ScoreUnit == 100000
Points(n) == n * ScoreUnit

Abs(x) == IF x < 0 THEN -x ELSE x
\* max(0, min(100, score))
Clamp0to100(score) == PyMax(0, PyMin(Points(100), score))

\* OfferEvaluation: the four scores are Field(..., ge=0, le=100).
OfferEvaluationSchemaOK(e) ==
    \A x \in {e.total_score, e.financial_score, e.esg_score, e.terms_score} :
        x >= 0 /\ x <= Points(100)

NoEval == [produced |-> FALSE, total_score |-> 0, financial_score |-> 0,
           esg_score |-> 0, terms_score |-> 0, recommendation |-> "",
           reasoning |-> ""]
Evaluation(total, financial, esg, terms, recommendation, reasoning) ==
    [produced |-> TRUE, total_score |-> total, financial_score |-> financial,
     esg_score |-> esg, terms_score |-> terms, recommendation |-> recommendation,
     reasoning |-> reasoning]

\* ---- WFAPCompanyAgent ---------------------------------------------------
\* _calculate_financial_score(offer, intent)
wfap_calculate_financial_score(offer, intent) ==
    LET s0 == 100
        \* amount_ratio = approved_amount / intent.amount: < 0.8, < 0.9
        s1 == IF 10 * offer.approved_amount < 8 * intent.amount THEN s0 - 30
              ELSE IF 10 * offer.approved_amount < 9 * intent.amount THEN s0 - 15
              ELSE s0
        s2 == IF offer.interest_rate > 800 THEN s1 - 30
              ELSE IF offer.interest_rate > 600 THEN s1 - 15
              ELSE IF offer.interest_rate > 400 THEN s1 - 5
              ELSE s1
        \* fee_percentage = processing_fee / approved_amount * 100: > 1, > 0.5
        s3 == IF 100 * offer.processing_fee > offer.approved_amount THEN s2 - 20
              ELSE IF 200 * offer.processing_fee > offer.approved_amount THEN s2 - 10
              ELSE s2
    IN Clamp0to100(Points(s3))

\* Mutant: an overall score below min_esg_score costs nothing.
wfap_calculate_esg_score_nomin(offer, intent) ==
    LET prefs == intent.esg_preferences
        s0 == Points(100)
        s2 == IF prefs.carbon_neutral_preference
                 /\ offer.esg_score.carbon_footprint_category # "low"
              THEN s0 - Points(30) ELSE s0
        social_diff == Abs(offer.esg_score.social_score
                           - 10 * prefs.social_impact_weight)
        governance_diff == Abs(offer.esg_score.governance_score
                               - 10 * prefs.governance_weight)
        s3 == s2 - (social_diff + governance_diff) * 2 * (ScoreUnit \div 100)
    IN Clamp0to100(s3)

\* _calculate_esg_score(offer, intent).  Comparing overall_score with a
\* min_esg_score of None raises TypeError.
wfap_calculate_esg_score(offer, intent) ==
    LET prefs == intent.esg_preferences
        s0 == Points(100)
        s1 == IF offer.esg_score.overall_score < prefs.min_esg_score.n
              THEN s0 - Points(40) ELSE s0
        s2 == IF prefs.carbon_neutral_preference
                 /\ offer.esg_score.carbon_footprint_category # "low"
              THEN s1 - Points(30) ELSE s1
        \* abs(score - weight * 10), in hundredths of the 0-10 scale
        social_diff == Abs(offer.esg_score.social_score
                           - 10 * prefs.social_impact_weight)
        governance_diff == Abs(offer.esg_score.governance_score
                               - 10 * prefs.governance_weight)
        \* score -= (social_diff + governance_diff) * 2
        s3 == s2 - (social_diff + governance_diff) * 2 * (ScoreUnit \div 100)
    IN Clamp0to100(s3)

\* _calculate_terms_score(offer, intent)
wfap_calculate_terms_score(offer, intent) ==
    LET s0 == 100
        s1 == IF offer.collateral_required THEN s0 - 20 ELSE s0
        s2 == IF offer.early_repayment_penalty THEN s1 - 15 ELSE s1
        s3 == IF offer.grace_period_days < 15 THEN s2 - 10
              ELSE IF offer.grace_period_days < 30 THEN s2 - 5
              ELSE s2
        s4 == IF offer.repayment_schedule # "monthly" THEN s3 - 10 ELSE s3
        \* days_valid = (offer_valid_until - utcnow()).days
        s5 == IF offer.days_valid < 3 THEN s4 - 20
              ELSE IF offer.days_valid < 7 THEN s4 - 10
              ELSE s4
    IN Clamp0to100(Points(s5))

\* Lines 212-221.
wfap_recommendation(total_score) ==
    IF total_score >= Points(80)
    THEN <<"accept", "Excellent offer with favorable terms and strong ESG alignment">>
    ELSE IF total_score >= Points(60)
    THEN <<"negotiate", "Good offer but some terms could be improved">>
    ELSE <<"reject", "Offer does not meet minimum requirements">>

\* _evaluate_offer for an offer whose intent was found (lines 196-231).
wfap_evaluate_offer(offer, intent) ==
    IF intent.esg_preferences.min_esg_score.t = "null" THEN NoEval   \* TypeError
    ELSE LET financial_score == wfap_calculate_financial_score(offer, intent)
             esg_score == wfap_calculate_esg_score(offer, intent)
             terms_score == wfap_calculate_terms_score(offer, intent)
             total_score == (4 * financial_score + 3 * esg_score + 3 * terms_score)
                            \div 10
             rec == wfap_recommendation(total_score)
             e == Evaluation(total_score, financial_score, esg_score, terms_score,
                             rec[1], rec[2])
         IN IF OfferEvaluationSchemaOK(e) THEN e ELSE NoEval

\* ---- CompanyFinanceAgent ------------------------------------------------
\* _calculate_financial_score(offer)
skills_calculate_financial_score(offer) ==
    LET \* max(0, 100 - (carbon_adjusted_rate - 3.0) * 10)
        rate_score == PyMax(0, Points(100)
                               - (offer.carbon_adjusted_rate - 300) * (ScoreUnit \div 10))
        \* min(100, approved_amount / 1000000 * 50)
        amount_score == PyMin(Points(100), offer.approved_amount * 5)
        \* max(0, 100 - processing_fee / 1000)
        fee_score == PyMax(0, Points(100) - offer.processing_fee * 100)
    IN (6 * rate_score + 3 * amount_score + fee_score) \div 10

\* _calculate_esg_score(offer): overall_score * 10
skills_calculate_esg_score(offer) ==
    offer.esg_score.overall_score * (ScoreUnit \div 10)

\* _calculate_terms_score(offer)
skills_calculate_terms_score(offer) ==
    LET collateral_score == IF ~offer.collateral_required THEN Points(100)
                            ELSE Points(50)
        penalty_score == IF ~offer.early_repayment_penalty THEN Points(100)
                         ELSE Points(70)
        grace_score == PyMin(Points(100), Points(offer.grace_period_days * 2))
    IN (4 * collateral_score + 3 * penalty_score + 3 * grace_score) \div 10

\* Line 122.
skills_recommendation(total_score) ==
    IF total_score >= Points(75) THEN "accept"
    ELSE IF total_score >= Points(60) THEN "negotiate"
    ELSE "reject"

\* _generate_reasoning: the collaborator's text, stripped, or the standard
\* sentence when the call raises.
ReasoningTexts == {"collaborator text", "", "Standard evaluation based on rate, ESG score and terms."}

\* _evaluate_single_offer(offer); NoEval: OfferEvaluation(...) raised.
evaluate_single_offer(offer, reasoning) ==
    LET financial_score == skills_calculate_financial_score(offer)
        esg_score == skills_calculate_esg_score(offer)
        terms_score == skills_calculate_terms_score(offer)
        total_score == (40 * financial_score + 35 * esg_score + 25 * terms_score)
                       \div 100
        e == Evaluation(total_score, financial_score, esg_score, terms_score,
                        skills_recommendation(total_score), reasoning)
    IN IF OfferEvaluationSchemaOK(e) THEN e ELSE NoEval

\* ---- the offers and intents given to the evaluators ---------------------
ESG(env, social, governance, overall, category) ==
    [environmental_score |-> env, social_score |-> social,
     governance_score |-> governance, overall_score |-> overall,
     carbon_footprint_category |-> category]
Financials(amount, rate, carbon_rate, fee) ==
    [approved_amount |-> amount, interest_rate |-> rate,
     carbon_adjusted_rate |-> carbon_rate, processing_fee |-> fee]
Terms(collateral, penalty, grace, schedule, days) ==
    [collateral_required |-> collateral, early_repayment_penalty |-> penalty,
     grace_period_days |-> grace, repayment_schedule |-> schedule,
     days_valid |-> days]
Offer(f, e, t) ==
    [approved_amount |-> f.approved_amount, interest_rate |-> f.interest_rate,
     carbon_adjusted_rate |-> f.carbon_adjusted_rate,
     processing_fee |-> f.processing_fee, esg_score |-> e,
     collateral_required |-> t.collateral_required,
     early_repayment_penalty |-> t.early_repayment_penalty,
     grace_period_days |-> t.grace_period_days,
     repayment_schedule |-> t.repayment_schedule, days_valid |-> t.days_valid]

\* The amount every intent of the evaluator model asks for.
RequestedAmount == 1000000

BaseFinancials == Financials(1000000, 450, 450, 0)
BestFinancials == Financials(2000000, 350, 10, 0)
WorstFinancials == Financials(780000, 850, 5000, 200000)
FinancialsSet ==
    { Financials(a, r, c, f) :
        a \in {780000, 800000, 840000, 900000, 1000000, 2000000},
        r \in {350, 400, 450, 650, 850},
        c \in {10, 250, 300, 450, 1350, 5000},
        f \in {0, 4000, 5000, 8000, 10000, 12000, 200000} }

BaseESG == ESG(750, 300, 200, 750, "low")
BestESG == ESG(1000, 300, 200, 1000, "low")
WorstESG == ESG(0, 1000, 1000, 0, "high")
ESGSet ==
    { ESG(750, so, g, o, c) :
        so \in {0, 300, 1000}, g \in {0, 200, 1000},
        o \in {0, 500, 700, 750, 900, 1000}, c \in {"low", "medium", "high"} }

BaseTerms == Terms(FALSE, FALSE, 30, "monthly", 7)
BestTerms == Terms(FALSE, FALSE, 60, "monthly", 30)
WorstTerms == Terms(TRUE, TRUE, 0, "quarterly", -1)
TermsSet ==
    { Terms(c, p, g, sch, d) :
        c \in BOOLEAN, p \in BOOLEAN, g \in {0, 14, 15, 29, 30, 60},
        sch \in {"monthly", "quarterly"}, d \in {-1, 2, 3, 6, 7} }

\* One group of fields is varied at a time around the base offer, and the
\* three groups take their best, base and worst values together.
ScoreOffers ==
    { Offer(f, BaseESG, BaseTerms) : f \in FinancialsSet }
    \cup { Offer(BaseFinancials, e, BaseTerms) : e \in ESGSet }
    \cup { Offer(BaseFinancials, BaseESG, t) : t \in TermsSet }
    \cup { Offer(f, e, t) : f \in {BestFinancials, BaseFinancials, WorstFinancials},
                             e \in {BestESG, BaseESG, WorstESG},
                             t \in {BestTerms, BaseTerms, WorstTerms} }

\* ESGPreferences: min_esg_score is Optional (ge=0, le=10), the weights are
\* ge=0, le=1 (hundredths: 0.3 = 30).
Preferences(min, carbon, social, governance) ==
    [min_esg_score |-> min, carbon_neutral_preference |-> carbon,
     social_impact_weight |-> social, governance_weight |-> governance]
DefaultPreferences == Preferences(JNum(700), TRUE, 30, 20)
PreferencesSet ==
    { Preferences(m, c, so, g) :
        m \in {JNum(700), JNum(0), JNum(1000)}, c \in BOOLEAN,
        so \in {0, 30, 100}, g \in {0, 20, 100} }
    \cup { Preferences(JNull, TRUE, 30, 20) }
ScoreIntents ==
    { [amount |-> RequestedAmount, esg_preferences |-> p] : p \in PreferencesSet }
NoScoreIntent == [amount |-> 0, esg_preferences |-> DefaultPreferences]
NoScoreOffer == Offer(Financials(0, 0, 0, 0), NoESG, Terms(FALSE, FALSE, 0, "", 0))

ScoreInit ==
    /\ sc_pc = "idle"
    /\ sc_evaluator = "wfap"
    /\ sc_offer = NoScoreOffer
    /\ sc_intent = NoScoreIntent
    /\ sc_eval = NoEval

\* WFAPCompanyAgent._evaluate_offer on an offer whose intent is known.
ScEvaluateOffer ==
    /\ sc_pc = "idle"
    /\ \E offer \in ScoreOffers, intent \in ScoreIntents :
          /\ sc_offer' = offer
          /\ sc_intent' = intent
          /\ sc_eval' = wfap_evaluate_offer(offer, intent)
    /\ sc_evaluator' = "wfap"
    /\ sc_pc' = "done"

\* CompanyFinanceAgent._evaluate_single_offer on one offer.
ScEvaluateSingleOffer ==
    /\ sc_pc = "idle"
    /\ \E offer \in ScoreOffers, reasoning \in ReasoningTexts :
          /\ sc_offer' = offer
          /\ sc_eval' = evaluate_single_offer(offer, reasoning)
    /\ sc_intent' = NoScoreIntent
    /\ sc_evaluator' = "skills"
    /\ sc_pc' = "done"

\* The evaluators keep nothing of an evaluation.
ScReset ==
    /\ sc_pc = "done"
    /\ sc_pc' = "idle"
    /\ sc_offer' = NoScoreOffer
    /\ sc_intent' = NoScoreIntent
    /\ sc_eval' = NoEval
    /\ UNCHANGED sc_evaluator

(***************************************************************************)
(* WFAPCompanyAgent as an object: its active intents, the offers it has    *)
(* received, and the calls create_credit_intent and _handle_credit_offer.  *)
(***************************************************************************)
\* intent_id is a fresh uuid4; the model numbers the intents in the order
\* of their creation, so active_intents is the sequence of the intents
\* created so far.  An offer may name any of them, or an id never issued.
OfferIntentIds == 1..(MaxIntents + 1)
OfferIds == {"o1", "o2"}

\* self.active_intents.get(offer.intent_id)
IntentKnown(intents, intent_id) == intent_id \in 1..Len(intents)

\* The payload of a CREDIT_OFFER message: a dict CreditOffer(**payload)
\* accepts (valid) or rejects.
Payload(valid, offer_id, intent_id, body) ==
    [valid |-> valid, offer_id |-> offer_id, intent_id |-> intent_id, body |-> body]
NoPayload == Payload(FALSE, "", 0, NoScoreOffer)
OfferPayloads ==
    { Payload(TRUE, o, i, b) :
        o \in OfferIds, i \in OfferIntentIds,
        b \in {Offer(BaseFinancials, BaseESG, BaseTerms),
               Offer(WorstFinancials, WorstESG, WorstTerms)} }
    \cup { Payload(FALSE, "o1", i, NoScoreOffer) : i \in OfferIntentIds }

\* The intents create_credit_intent may be asked for.
CompanyIntents ==
    { [amount |-> a, esg_preferences |-> p] :
        a \in {0, RequestedAmount},
        p \in {DefaultPreferences, Preferences(JNull, TRUE, 30, 20)} }

\* What a call answered.
Response(status, message, evaluation, intent_id) ==
    [status |-> status, message |-> message, evaluation |-> evaluation,
     intent_id |-> intent_id]
NoResponse == Response("", "", NoEval, 0)

\* Lines 186-194.
NoMatchEvaluation ==
    Evaluation(0, 0, 0, 0, "reject", "No matching credit intent found")

\* Mutant: the intent is used without the "if not intent" guard.
evaluate_offer_noguard(payload, intents) ==
    IF ~IntentKnown(intents, payload.intent_id)
    THEN NoEval     \* AttributeError on None
    ELSE wfap_evaluate_offer(payload.body, intents[payload.intent_id])

\* _evaluate_offer(offer); NoEval: an exception was raised.
evaluate_offer(payload, intents) ==
    IF ~IntentKnown(intents, payload.intent_id)
    THEN NoMatchEvaluation
    ELSE wfap_evaluate_offer(payload.body, intents[payload.intent_id])

\* The dict _handle_credit_offer returns.
handle_credit_offer(payload, intents) ==
    IF ~payload.valid
    THEN Response("error", "Internal error", NoEval, 0)      \* CreditOffer(**payload) raised
    ELSE LET evaluation == evaluate_offer(payload, intents)
         IN IF evaluation.produced
            THEN Response("success", "Offer received and evaluated", evaluation, 0)
            ELSE Response("error", "Internal error", NoEval, 0)

CompanyInit ==
    /\ active_intents = <<>>
    /\ received_offers = [i \in OfferIntentIds |-> <<>>]
    /\ co_call = "none"
    /\ co_message = NoPayload
    /\ co_response = NoResponse

StoredOffers ==
    LET RECURSIVE Sum(_)
        Sum(n) == IF n = 0 THEN 0 ELSE Len(received_offers[n]) + Sum(n - 1)
    IN Sum(MaxIntents + 1)

\* create_credit_intent: CreditIntent(...) raises on amount <= 0 and None
\* is returned; otherwise the intent is stored, then the banks are looked
\* up and the intent is sent; None is returned when no bank is found.
CoCreateIntent ==
    /\ Len(active_intents) < MaxIntents
    /\ \E intent \in CompanyIntents, banks_found \in BOOLEAN :
          IF intent.amount <= 0
          THEN /\ active_intents' = active_intents
               /\ co_response' = Response("returned", "None", NoEval, 0)
          ELSE /\ active_intents' = Append(active_intents, intent)
               /\ co_response' =
                     IF banks_found
                     THEN Response("returned", "intent_id", NoEval,
                                   Len(active_intents) + 1)
                     ELSE Response("returned", "None", NoEval, 0)
    /\ co_call' = "create_credit_intent"
    /\ co_message' = NoPayload
    /\ UNCHANGED received_offers

\* Mutant: the list of the intent is replaced by the new offer alone.
CoHandleOffer_replace ==
    /\ StoredOffers < MaxOffers
    /\ \E payload \in OfferPayloads :
          /\ co_message' = payload
          /\ received_offers' =
                IF payload.valid
                THEN [received_offers EXCEPT ![payload.intent_id] = <<payload>>]
                ELSE received_offers
          /\ co_response' = handle_credit_offer(payload, active_intents)
    /\ co_call' = "handle_credit_offer"
    /\ UNCHANGED active_intents

\* _handle_credit_offer(message): parse, store, evaluate, answer.
CoHandleOffer ==
    /\ StoredOffers < MaxOffers
    /\ \E payload \in OfferPayloads :
          /\ co_message' = payload
          /\ received_offers' =
                IF payload.valid
                THEN [received_offers EXCEPT ![payload.intent_id] = Append(@, payload)]
                ELSE received_offers
          /\ co_response' = handle_credit_offer(payload, active_intents)
    /\ co_call' = "handle_credit_offer"
    /\ UNCHANGED active_intents

\* The agent process is restarted: both dicts start empty again.
CoRestart ==
    /\ co_call # "none"
    /\ active_intents' = <<>>
    /\ received_offers' = [i \in OfferIntentIds |-> <<>>]
    /\ co_call' = "none"
    /\ co_message' = NoPayload
    /\ co_response' = NoResponse

(***************************************************************************)
(* CompanyFinanceAgent.evaluate_offers: a JSON list of offers in, the      *)
(* ranked evaluations (or an error object) out.                            *)
(***************************************************************************)
\* The offers of one list; the offer at position k has offer_id k.
RankBodies ==
    { Offer(BaseFinancials, BaseESG, BaseTerms),
      Offer(BaseFinancials, BestESG, BaseTerms),
      Offer(BaseFinancials, BaseESG, WorstTerms),
      Offer(WorstFinancials, WorstESG, WorstTerms),
      Offer(Financials(2000000, 450, 250, 0), BaseESG, BaseTerms) }
RankPayloads(k) ==
    { Payload(TRUE, k, 1, b) : b \in RankBodies }
    \cup { Payload(FALSE, k, 1, NoScoreOffer) }
RankInputs ==
    UNION { { offers \in [1..n -> UNION { RankPayloads(k) : k \in 1..MaxRanked }] :
                \A k \in 1..n : offers[k].offer_id = k }
            : n \in 0..MaxRanked }

Ranked(offer_id, evaluation) == [offer_id |-> offer_id, evaluation |-> evaluation]

\* list.sort(key=lambda x: x.total_score, reverse=True): stable, so equal
\* totals keep their input order.
RECURSIVE SortByTotalDesc(_)
SortByTotalDesc(evaluations) ==
    IF evaluations = <<>> THEN <<>>
    ELSE LET n == Len(evaluations)
             last == evaluations[n]
             sorted == SortByTotalDesc(SubSeq(evaluations, 1, n - 1))
             \* last goes behind every element that is not smaller
             pos == Cardinality({k \in 1..(n - 1) :
                        sorted[k].evaluation.total_score
                            >= last.evaluation.total_score})
         IN SubSeq(sorted, 1, pos) \o <<last>> \o SubSeq(sorted, pos + 1, n - 1)

NoRanking == [kind |-> "none", evaluations |-> <<>>]
ErrorObject == [kind |-> "error", evaluations |-> <<>>]

\* evaluate_offers(offers_json): any exception (an offer CreditOffer(**offer)
\* rejects, an evaluation OfferEvaluation(...) rejects) gives {"error": ...}.
evaluate_offers(offers, reasoning) ==
    LET n == Len(offers)
        evaluations == [k \in 1..n |->
                           Ranked(offers[k].offer_id,
                                  evaluate_single_offer(offers[k].body, reasoning))]
    IN IF \E k \in 1..n : ~offers[k].valid THEN ErrorObject
       ELSE IF \E k \in 1..n : ~evaluations[k].evaluation.produced THEN ErrorObject
       ELSE [kind |-> "list", evaluations |-> SortByTotalDesc(evaluations)]

\* ---- CompanyAgentServer.evaluate_and_select_best_offer ------------------
\* The methods of the object server.py imports as company_agent
\* ("from .agent import company_agent", an instance of agent.CompanyAgent).
CompanyAgentMethods ==
    {"discover_bank_agents", "broadcast_credit_intent", "_validate_credit_intent",
     "_send_credit_intent_to_bank"}

NoSelection == [kind |-> "none", best_offer |-> 0, evaluation |-> NoEval,
                total_offers_received |-> 0]
ErrorSelection == [kind |-> "error", best_offer |-> 0, evaluation |-> NoEval,
                   total_offers_received |-> 0]

\* evaluate_and_select_best_offer(offers): {"error": ...} for an empty list;
\* otherwise company_agent.evaluate_offers(...) is called inside the try, and
\* any exception, the AttributeError of a missing method included, is turned
\* into {"error": str(e)}.  An error object from evaluate_offers is returned
\* as it is; of a list, the first evaluation names the best offer.
evaluate_and_select_best_offer(offers, reasoning) ==
    IF offers = <<>> THEN ErrorSelection
    ELSE IF "evaluate_offers" \notin CompanyAgentMethods THEN ErrorSelection
    ELSE LET evaluations == evaluate_offers(offers, reasoning)
         IN IF evaluations.kind = "error" THEN ErrorSelection
            ELSE IF "generate_decision_reasoning" \notin CompanyAgentMethods
            THEN ErrorSelection
            ELSE [kind |-> "selected",
                  best_offer |-> evaluations.evaluations[1].offer_id,
                  evaluation |-> evaluations.evaluations[1].evaluation,
                  total_offers_received |-> Len(offers)]

\* The lists of CreditOffer objects the server may be given.
SelectInputs == { offers \in RankInputs : \A k \in 1..Len(offers) : offers[k].valid }

RankInit ==
    /\ rk_pc = "idle"
    /\ rk_offers = <<>>
    /\ rk_result = NoRanking
    /\ rk_selection = NoSelection

RkEvaluateOffers ==
    /\ rk_pc = "idle"
    /\ \E offers \in RankInputs, reasoning \in ReasoningTexts :
          /\ rk_offers' = offers
          /\ rk_result' = evaluate_offers(offers, reasoning)
    /\ rk_pc' = "done"
    /\ UNCHANGED rk_selection

\* CompanyAgentServer.evaluate_and_select_best_offer on a list of offers.
RkSelectBest ==
    /\ rk_pc = "idle"
    /\ \E offers \in SelectInputs, reasoning \in ReasoningTexts :
          /\ rk_offers' = offers
          /\ rk_selection' = evaluate_and_select_best_offer(offers, reasoning)
    /\ rk_pc' = "selected"
    /\ UNCHANGED rk_result

\* The tool keeps nothing of a call.
RkReset ==
    /\ rk_pc \in {"done", "selected"}
    /\ rk_pc' = "idle"
    /\ rk_offers' = <<>>
    /\ rk_result' = NoRanking
    /\ rk_selection' = NoSelection

(***************************************************************************)
(* A2AAgent.validate_message and the handle_message of its two subclasses, *)
(* WFAPCompanyAgent and WFAPBankAgent.                                     *)
(***************************************************************************)
\* a2a_schema.MessageType and the AgentRole values the messages carry.
MessageTypes == {"discovery", "credit_intent", "credit_offer", "offer_evaluation"}
AgentRoles == {"company", "bank"}
A2AAgents == {"company", "bank"}

\* __init__: role and agent_id of each subclass.
RoleOf(agent) == agent
AgentId(agent) == IF agent = "company" THEN "company-c1" ELSE "bank-b1"
AgentIds == {AgentId(a) : a \in A2AAgents}

\* _initialize_agent supports DISCOVERY; initialize_capabilities of both
\* subclasses adds CREDIT_INTENT and CREDIT_OFFER.
supported_message_types(agent) == {"discovery", "credit_intent", "credit_offer"}

Message(type, id, role) ==
    [message_type |-> type, recipient_id |-> id, recipient_role |-> role]
NoMessage == Message("", "", "")
Messages ==
    {Message(t, i, r) : t \in MessageTypes, i \in AgentIds, r \in AgentRoles}

\* Mutant: the recipient_role check is left out.
validate_message_norole(agent, message) ==
    LET errors ==
            (IF message.message_type \notin supported_message_types(agent)
             THEN <<"UNSUPPORTED_MESSAGE_TYPE">> ELSE <<>>)
         \o (IF message.recipient_id # AgentId(agent)
             THEN <<"INVALID_RECIPIENT">> ELSE <<>>)
    IN [is_valid |-> Len(errors) = 0, errors |-> errors]

\* validate_message: the three checks, each appending its error.
validate_message(agent, message) ==
    LET errors ==
            (IF message.message_type \notin supported_message_types(agent)
             THEN <<"UNSUPPORTED_MESSAGE_TYPE">> ELSE <<>>)
         \o (IF message.recipient_id # AgentId(agent)
             THEN <<"INVALID_RECIPIENT">> ELSE <<>>)
         \o (IF message.recipient_role # RoleOf(agent)
             THEN <<"INVALID_ROLE">> ELSE <<>>)
    IN [is_valid |-> Len(errors) = 0, errors |-> errors]

\* What handle_message answered: the status of the dict, the error codes
\* of its "errors" list, and the handler the message was passed to.
Answer(status, errors, handler, message) ==
    [status |-> status, errors |-> errors, handler |-> handler,
     message |-> message]
NoAnswer == Answer("", <<>>, "none", "")

\* The payload of a DISCOVERY message: DiscoveryRequest(**payload) accepts
\* it or not, it may require a role, and its required skills are among the
\* agent's skills or not.
DiscoveryRequests ==
    [valid : BOOLEAN, required_role : {"none"} \cup AgentRoles,
     skills_present : BOOLEAN]

\* _handle_discovery
handle_discovery(agent, request) ==
    IF ~request.valid
    THEN Answer("error", <<>>, "discovery", "Discovery error")
    ELSE IF /\ request.required_role \in {"none", RoleOf(agent)}
            /\ request.skills_present
         THEN Answer("success", <<>>, "discovery", "")
         ELSE Answer("error", <<>>, "discovery",
                     "Agent does not match requirements")

\* A2AAgent.handle_message, reached through super().handle_message with a
\* message the subclass found valid: the message is validated again, a
\* DISCOVERY is answered, any other type is "Unsupported message type".
base_handle_message(agent, message, request) ==
    LET validation_result == validate_message(agent, message)
    IN IF ~validation_result.is_valid
       THEN Answer("error", validation_result.errors, "none", "")
       ELSE IF message.message_type = "discovery"
            THEN handle_discovery(agent, request)
            ELSE Answer("error", <<>>, "unsupported", "Unsupported message type")

\* What _handle_credit_intent of the bank answers: the payload is not a
\* CreditIntent, the credit bureau or the market data provider gave no
\* data, or _generate_credit_offer was reached; BankConfig has no
\* max_loan_amount, so it raises and "Internal error" is answered.
CreditIntentOutcomes ==
    {"bad_payload", "no_credit_data", "no_market_data", "offer_attempted"}
handle_credit_intent(outcome) ==
    Answer("error", <<>>, "credit_intent",
           CASE outcome = "no_credit_data" -> "Unable to retrieve credit data"
             [] outcome = "no_market_data" -> "Unable to retrieve market data"
             [] OTHER -> "Internal error")

\* The CREDIT_OFFER payloads sent to handle_message: one offer per intent
\* id, and the payload CreditOffer(**payload) rejects.
A2APayloads ==
    {p \in OfferPayloads :
        /\ p.offer_id = "o1"
        /\ p.valid => p.body = Offer(BaseFinancials, BaseESG, BaseTerms)}

A2AInit ==
    /\ a2a_agent = "none"
    /\ a2a_message = NoMessage
    /\ a2a_result = NoAnswer

\* WFAPCompanyAgent.handle_message
CoHandleMessage ==
    /\ StoredOffers < MaxOffers
    /\ \E message \in Messages :
          LET validation_result == validate_message("company", message)
          IN /\ a2a_message' = message
             /\ IF ~validation_result.is_valid
                THEN /\ a2a_result' = Answer("error", validation_result.errors, "none", "")
                     /\ co_message' = NoPayload
                     /\ co_response' = NoResponse
                     /\ UNCHANGED received_offers
                ELSE IF message.message_type = "credit_offer"
                     THEN \E payload \in A2APayloads :
                          LET response == handle_credit_offer(payload, active_intents)
                          IN /\ co_message' = payload
                             /\ received_offers' =
                                   IF payload.valid
                                   THEN [received_offers EXCEPT
                                           ![payload.intent_id] = Append(@, payload)]
                                   ELSE received_offers
                             /\ co_response' = response
                             /\ a2a_result' = Answer(response.status, <<>>, "credit_offer",
                                                     response.message)
                     ELSE \E request \in DiscoveryRequests :
                          /\ a2a_result' = base_handle_message("company", message, request)
                          /\ co_message' = NoPayload
                          /\ co_response' = NoResponse
                          /\ UNCHANGED received_offers
    /\ a2a_agent' = "company"
    /\ co_call' = "handle_message"
    /\ UNCHANGED active_intents

\* WFAPBankAgent.handle_message; the bank agent keeps no state of its own
\* besides its configuration.
WbHandleMessage ==
    /\ \E message \in Messages :
          LET validation_result == validate_message("bank", message)
          IN /\ a2a_message' = message
             /\ IF ~validation_result.is_valid
                THEN a2a_result' = Answer("error", validation_result.errors, "none", "")
                ELSE IF message.message_type = "credit_intent"
                     THEN \E outcome \in CreditIntentOutcomes :
                             a2a_result' = handle_credit_intent(outcome)
                     ELSE \E request \in DiscoveryRequests :
                             a2a_result' = base_handle_message("bank", message, request)
    /\ a2a_agent' = "bank"
    /\ UNCHANGED companyVars

\* The agent processes are restarted.
A2ARestart ==
    /\ CoRestart
    /\ a2a_agent' = "none"
    /\ a2a_message' = NoMessage
    /\ a2a_result' = NoAnswer

(***************************************************************************)
(* Registry: thirdparty/registry_util.py and thirdparty/registry.py, the   *)
(* bankRegister route.  The route is a plain "def", which the server runs  *)
(* in a worker thread, so several requests are handled at the same time.   *)
(***************************************************************************)
Requests == 1..MaxRequests
RegBankIds == {"BANK_A", "BANK_B"}

\* registry_banks.json: for each bank_id the payload stored under it, named
\* by the request that carried it; 0 when the key is not in the file.
NoBanks == [id \in RegBankIds |-> 0]
NoRequest == [pc |-> "none", bank_id |-> "", banks |-> NoBanks, answer |-> ""]

RegInit ==
    /\ reg_file = NoBanks       \* load_data returns {} while the file does not exist
    /\ reg_req = [r \in Requests |-> NoRequest]

\* A bankRegister request arrives and its handler is started.
RegArrive(r) ==
    /\ reg_req[r].pc = "none"
    /\ \A q \in 1..(r - 1) : reg_req[q].pc # "none"
    /\ \E id \in RegBankIds :
          reg_req' = [reg_req EXCEPT ![r] = [@ EXCEPT !.pc = "load", !.bank_id = id]]
    /\ UNCHANGED reg_file

\* banks = load_data(BANKS_FILE); "if payload.bank_id in banks" raises the
\* 400; otherwise banks[payload.bank_id] = payload.model_dump().
RegLoad(r) ==
    /\ reg_req[r].pc = "load"
    /\ reg_req' = [reg_req EXCEPT ![r] =
          IF reg_file[@.bank_id] # 0
          THEN [@ EXCEPT !.pc = "done", !.banks = reg_file, !.answer = "400"]
          ELSE [@ EXCEPT !.pc = "save",
                         !.banks = [reg_file EXCEPT ![reg_req[r].bank_id] = r]]]
    /\ UNCHANGED reg_file

\* save_data(BANKS_FILE, banks) writes the handler's whole dict; then the
\* success string is returned.
RegSave(r) ==
    /\ reg_req[r].pc = "save"
    /\ reg_file' = reg_req[r].banks
    /\ reg_req' = [reg_req EXCEPT ![r] = [@ EXCEPT !.pc = "done", !.answer = "success"]]

(***************************************************************************)
(* Specifications                                                          *)
(***************************************************************************)
Init ==
    GateInit /\ BcInit /\ BankInit /\ NormInit /\ ScoreInit /\ CompanyInit
    /\ RankInit /\ RegInit /\ A2AInit

GateNext ==
    /\ (GateValidate \/ GateReset)
    /\ UNCHANGED <<bcVars, bankVars, normVars, scoreVars, companyVars,
                 rankVars, regVars, a2aVars>>
SpecGate == Init /\ [][GateNext]_vars

BcNext ==
    /\ \/ BcStart
       \/ BcValidate
       \/ BcDiscover
       \/ BcCreateTask
       \/ BcGather
       \/ \E b \in Banks : BcTaskSend(b)
       \/ \E b \in Banks : BcTaskSettle(b)
       \/ BcReturn
       \/ BcFinish
    /\ UNCHANGED <<gateVars, bankVars, normVars, scoreVars, companyVars,
                 rankVars, regVars, a2aVars>>
SpecBroadcast == Init /\ [][BcNext]_vars

\* The steps the event loop takes by itself once broadcast_credit_intent has
\* been called: the coroutine runs on when it is ready, a created task is
\* started, and a pending session.post ends with a response, a failure or
\* its timeout.  The call itself (BcStart) and what the caller does with the
\* result (BcFinish) are not forced.
BcProgress ==
    /\ \/ BcValidate
       \/ BcDiscover
       \/ BcCreateTask
       \/ BcGather
       \/ \E b \in Banks : BcTaskSend(b)
       \/ \E b \in Banks : BcTaskSettle(b)
       \/ BcReturn
    /\ UNCHANGED <<gateVars, bankVars, normVars, scoreVars, companyVars,
                 rankVars, regVars, a2aVars>>
SpecBroadcastFair == Init /\ [][BcNext]_vars /\ WF_vars(BcProgress)

BankNext ==
    /\ \/ BkReceive
       \/ BkVerifyIdentity
       \/ BkAssessRisk
       \/ BkCalculateEsg
       \/ BkDeterminePricing
       \/ BkGenerateOffer
       \/ BkReset
    /\ UNCHANGED <<gateVars, bcVars, normVars, scoreVars, companyVars,
                 rankVars, regVars, a2aVars>>
SpecBank == Init /\ [][BankNext]_vars

NormNext ==
    /\ \/ NsNormalize
       \/ NsNormalizeAgain
       \/ NsReset
    /\ UNCHANGED <<gateVars, bcVars, bankVars, scoreVars, companyVars,
                 rankVars, regVars, a2aVars>>
SpecNormalize == Init /\ [][NormNext]_vars

ScoreNext ==
    /\ \/ ScEvaluateOffer
       \/ ScEvaluateSingleOffer
       \/ ScReset
    /\ UNCHANGED <<gateVars, bcVars, bankVars, normVars, companyVars,
                 rankVars, regVars, a2aVars>>
SpecScore == Init /\ [][ScoreNext]_vars

CompanyNext ==
    /\ \/ CoCreateIntent
       \/ CoHandleOffer
       \/ CoRestart
    /\ UNCHANGED <<gateVars, bcVars, bankVars, normVars, scoreVars, rankVars, regVars, a2aVars>>
SpecCompany == Init /\ [][CompanyNext]_vars

RankNext ==
    /\ \/ RkEvaluateOffers
       \/ RkSelectBest
       \/ RkReset
    /\ UNCHANGED <<gateVars, bcVars, bankVars, normVars, scoreVars, companyVars,
                 regVars, a2aVars>>
SpecRank == Init /\ [][RankNext]_vars

RegNext ==
    /\ \/ \E r \in Requests : RegArrive(r)
       \/ \E r \in Requests : RegLoad(r)
       \/ \E r \in Requests : RegSave(r)
    /\ UNCHANGED <<gateVars, bcVars, bankVars, normVars, scoreVars, companyVars,
                 rankVars, a2aVars>>
SpecRegistry == Init /\ [][RegNext]_vars

A2ANext ==
    /\ \/ CoCreateIntent /\ UNCHANGED a2aVars
       \/ CoHandleMessage
       \/ WbHandleMessage
       \/ A2ARestart
    /\ UNCHANGED <<gateVars, bcVars, bankVars, normVars, scoreVars, rankVars,
                 regVars>>
SpecA2A == Init /\ [][A2ANext]_vars

(***************************************************************************)
(* Properties of the Broadcast Coordinator                                 *)
(***************************************************************************)
DiscoveredSet == 1..Len(discovered_banks)
Succeeded(b) == bc_resp[b].kind = "offer"
SucceededBanks == {b \in DiscoveredSet : Succeeded(b)}
AgentReturnedFromGather ==
    bc_pc = "returned" /\ bc_coord = "agent" /\ discovered_banks # <<>>

\* C3: when CompanyAgent.broadcast_credit_intent has gathered the answers of
\* its N banks of which M failed, it returns exactly N-M offers, and for each
\* succeeding bank exactly one element, equal to the offer that bank sent
\* whatever the other banks did.
C3_PartialFailure ==
    AgentReturnedFromGather =>
        /\ Len(bc_offers) = Len(discovered_banks)
                              - Cardinality(DiscoveredSet \ SucceededBanks)
        /\ \A b \in SucceededBanks :
              Cardinality({k \in 1..Len(bc_offers) : bc_offers[k].bank = b}) = 1
        /\ \A k \in 1..Len(bc_offers) :
              /\ bc_offers[k].bank \in SucceededBanks
              /\ bc_offers[k] = OfferResult(bc_offers[k].bank,
                                            bc_resp[bc_offers[k].bank].rate)

C3_Witness ==
    /\ AgentReturnedFromGather
    /\ Len(discovered_banks) >= 2
    /\ SucceededBanks # {}
    /\ \E b \in DiscoveredSet : bc_resp[b].kind = "timeout"
    /\ Len(bc_offers) = Cardinality(SucceededBanks)

C5_FanOutJoin ==
    /\ bc_pc = "creating" =>
          \A b \in Banks : bc_tasks[b] \in {"none", "created"}
    /\ bc_pc \in {"gathering", "returned"} =>
          \A b \in DiscoveredSet : bc_tasks[b] # "none"
    /\ bc_pc = "returned" =>
          /\ \A b \in DiscoveredSet : bc_tasks[b] = "settled"
          /\ \A b \in Banks : bc_tasks[b] # "inflight"

C5_Witness ==
    /\ bc_pc = "returned"
    /\ Len(discovered_banks) >= 2
    /\ \A b \in DiscoveredSet : bc_tasks[b] = "settled" /\ bc_sent[b] = 1

\* C8 (as claimed): a bank is sent a request only after the Validation Gate
\* returned valid = true for the intent, and a broadcast that ended with a
\* validation failure has issued no request.
C8_NoRequestBeforeValidation ==
    /\ \A b \in Banks : bc_sent[b] > 0 => bc_validation.valid
    /\ bc_pc = "raised" => \A b \in Banks : bc_sent[b] = 0

(***************************************************************************)
(* Properties of the Validation Gate                                       *)
(***************************************************************************)
AmountRuleHolds(i) == i.amount >= 1000 /\ i.amount <= 10000000
DurationRuleHolds(i) == i.duration_months >= 6 /\ i.duration_months <= 120
RatioRuleHolds(i) ==
    (i.annual_revenue.present /\ i.annual_revenue.v > 0)
        => i.amount <= 5 * i.annual_revenue.v
ViolatedRules(i) ==
    (IF AmountRuleHolds(i) THEN {} ELSE {"amount"})
    \cup (IF DurationRuleHolds(i) THEN {} ELSE {"duration"})
    \cup (IF RatioRuleHolds(i) THEN {} ELSE {"ratio"})

\* C6: the gate answers valid = true exactly when the amount rule, the
\* duration rule and the debt/revenue rule all hold; amount 500, duration
\* 150 and 2,000,000 against a revenue of 300,000 are each answered false.
C6_ValidIffAllRules ==
    gate_pc = "done" =>
        /\ gate_result.valid <=> ViolatedRules(gate_intent) = {}
        /\ gate_intent.amount = 500 => ~gate_result.valid
        /\ gate_intent.duration_months = 150 => ~gate_result.valid
        /\ (gate_intent.amount = 2000000
              /\ gate_intent.annual_revenue = Revenue(300000)) => ~gate_result.valid

C6_Witness ==
    /\ gate_pc = "done"
    /\ gate_intent.amount = 2000000
    /\ gate_intent.duration_months = 60
    /\ gate_intent.annual_revenue = Revenue(300000)
    /\ ~gate_result.valid
    /\ gate_result.errors = <<"Loan amount cannot exceed 5x annual revenue">>

\* The rule an entry of the error list reports.  The single schema entry
\* carries pydantic's message, which names every field that failed the
\* CreditIntent schema (and nothing about the business rules).
RulesReported(i, errors) ==
    UNION { CASE errors[k] \in {"Minimum loan amount is $1,000",
                                "Maximum loan amount is $10,000,000"} -> {"amount"}
              [] errors[k] \in {"Minimum loan duration is 6 months",
                                "Maximum loan duration is 120 months"} -> {"duration"}
              [] errors[k] = "Loan amount cannot exceed 5x annual revenue" -> {"ratio"}
              [] errors[k] = "Schema validation error" ->
                    (IF i.amount > 0 THEN {} ELSE {"amount"})
                    \cup (IF i.duration_months > 0 /\ i.duration_months <= 120
                          THEN {} ELSE {"duration"})
              [] OTHER -> {}
            : k \in 1..Len(errors) }

\* C7 (as claimed): the gate does not short-circuit; every violated rule is
\* reported by an entry of the returned error list.
C7_EveryViolatedRuleReported ==
    gate_pc = "done" =>
        ViolatedRules(gate_intent) \subseteq RulesReported(gate_intent, gate_result.errors)

(***************************************************************************)
(* Properties of the Offer Generator                                       *)
(***************************************************************************)
\* C1: every offer returned by process_credit_intent has a
\* carbon_adjusted_rate above 0 and at most 50 %, whatever rate the
\* collaborator's pricing answer carried, for every bank configuration.
C1_RateInRange ==
    bk_pc = "done" =>
        /\ bk_offer.carbon_adjusted_rate > 0
        /\ bk_offer.carbon_adjusted_rate <= 5000

C1_Witness ==
    /\ bk_pc = "done"
    /\ bk_bank.min_interest_rate = 6000
    /\ bk_llm.pricing = "object"
    /\ bk_llm.rate = JNum(-100)
    /\ bk_offer.carbon_adjusted_rate = 5000

\* C2 (as claimed): the approved amount of a generated offer is at most the
\* requested amount and at most the bank's max_loan_amount.
C2_ApprovedWithinRequestAndCap ==
    bk_pc = "done" =>
        /\ bk_offer.approved_amount <= bk_intent.amount
        /\ bk_offer.approved_amount <= bk_bank.max_loan_amount

RiskStageDone == bk_pc \in {"esg", "pricing", "offer", "done"}

\* C9 (as claimed): after a risk answer that is not JSON the assessment in
\* use is medium / 70 with recommended_maximum_exposure equal to the
\* requested amount.
C9_FallbackUsesRequestedAmount ==
    (RiskStageDone /\ bk_llm.risk = "prose") =>
        /\ bk_risk.overall_risk_rating = "medium"
        /\ bk_risk.confidence_score = JNum(70)
        /\ bk_risk.recommended_maximum_exposure = Scalar(JNum(bk_intent.amount))

NarrativeFailures ==
    {"risk:llm_raised", "risk:not_object", "esg:llm_raised", "esg:not_object",
     "pricing:not_object"}

\* C10 (as claimed): a collaborator failure at the risk, ESG or pricing stage
\* (the call raises, or the answer is not a JSON object) is never the reason
\* why process_credit_intent produces no offer.
C10_NarrativeFailureNeverFatal ==
    bk_pc = "failed" => bk_error \notin NarrativeFailures

\* C11 (as claimed): when the credit bureau, the market-data provider or the
\* ESG regulator gave no snapshot, the stages from risk to offer assembly
\* still run to completion: no run with an absent snapshot ends by raising
\* on that absence.
C11_AbsentDataStillOffer ==
    (/\ bk_pc = "failed"
     /\ \E p \in {"credit_bureau", "market", "esg_regulator"} : bk_data[p] = "None")
    => bk_error # "pricing:credit_bureau_data is None"

\* The three forms of recommended_maximum_exposure the claim names: a bare
\* number, an object with a numeric or currency-formatted amount, and a
\* currency-formatted string at top level.
IsCurrencyString(j) == IsStr(j) /\ StartsWithDollar(j.s) /\ ParseCurrency(j.s).ok
NamedExposureForm(x) ==
    \/ x.t = "num"
    \/ x.t = "obj" /\ (IsNum(x.a) \/ IsCurrencyString(x.a))
    \/ IsCurrencyString([t |-> x.t, n |-> x.n, s |-> x.s])
ExposureErrors ==
    {"risk:exposure_parse", "risk:exposure_format",
     "offer:exposure_parse", "offer:exposure_compare"}

\* C12 (as claimed): whichever of the three forms the risk answer gives
\* recommended_maximum_exposure in, its coercion never raises, so the run
\* does not fail on the exposure and the approved amount is computed from
\* the coerced number.
C12_ExposureFormsCoerced ==
    NamedExposureForm(bk_risk.recommended_maximum_exposure) =>
        /\ bk_error \notin ExposureErrors
        /\ bk_pc = "done" =>
              bk_offer.approved_amount =
                  PyMin(bk_intent.amount,
                        CoerceExposure(bk_risk.recommended_maximum_exposure,
                                       bk_intent.amount).val.n)

(***************************************************************************)
(* Properties of normalize_score                                           *)
(***************************************************************************)
InScoreRange(j) == IsNum(j) /\ j.n >= 0 /\ j.n <= 10000

\* C13: for a number in 0..100, normalize_score returns a value in 0..10
\* unchanged and a value in (10, 100] divided by 10; normalizing the result
\* again (a second call, or any further one) returns the same value.
C13_NormalizeIdempotent ==
    (ns_calls >= 1 /\ InScoreRange(ns_input)) =>
        /\ ns_input.n <= 1000 => ns_result = ns_input.n
        /\ ns_input.n > 1000 => 10 * ns_result = ns_input.n
        /\ normalize_score(JNum(ns_result)) = ns_result

C13_Witness ==
    /\ ns_calls = 2
    /\ ns_input = JNum(7500)
    /\ ns_result = 750

(***************************************************************************)
(* Properties of the Offer Evaluator                                       *)
(***************************************************************************)
EvaluationProduced == sc_pc = "done" /\ sc_eval.produced

\* C14 (as claimed): every evaluation an evaluator produces has a total
\* score in [0, 100] and recommends "accept" exactly when total >= 80,
\* "negotiate" exactly when 60 <= total < 80 and "reject" exactly when
\* total < 60.
C14_TotalRangeAndBuckets ==
    EvaluationProduced =>
        /\ sc_eval.total_score >= 0
        /\ sc_eval.total_score <= Points(100)
        /\ sc_eval.recommendation = "accept" <=> sc_eval.total_score >= Points(80)
        /\ sc_eval.recommendation = "negotiate" <=>
              (sc_eval.total_score >= Points(60) /\ sc_eval.total_score < Points(80))
        /\ sc_eval.recommendation = "reject" <=> sc_eval.total_score < Points(60)

\* The evaluated offer has ESG overall 9.0, its intent min_esg_score 7.0.
HighEsgOfferEvaluated ==
    /\ EvaluationProduced
    /\ sc_evaluator = "wfap"
    /\ sc_offer.esg_score.overall_score = 900
    /\ sc_intent.esg_preferences.min_esg_score = JNum(700)
\* The offer that differs from the evaluated one only in ESG overall 5.0.
LowEsgTwin == [sc_offer EXCEPT !.esg_score.overall_score = 500]
LowEsgTwinScore == wfap_calculate_esg_score(LowEsgTwin, sc_intent)

\* C15 (as claimed): the ESG-dimension score of the 5.0 offer is at least
\* 40 points below that of the 9.0 offer, whatever the carbon category, the
\* social and governance scores and the preference weights are.
C15_LowEsgAtLeast40Lower ==
    HighEsgOfferEvaluated =>
        sc_eval.esg_score - LowEsgTwinScore >= Points(40)

\* C15 (amended): the 5.0 offer scores exactly 40 points below the 9.0
\* offer when the 9.0 offer scores at least 40 on the ESG dimension, and 0
\* otherwise (the dimension is clamped to [0, 100]); it never scores above.
C15_LowEsg40LowerOrZero ==
    HighEsgOfferEvaluated =>
        /\ sc_eval.esg_score >= Points(40) =>
              sc_eval.esg_score - LowEsgTwinScore = Points(40)
        /\ sc_eval.esg_score < Points(40) => LowEsgTwinScore = 0
        /\ LowEsgTwinScore <= sc_eval.esg_score

C15_Witness ==
    /\ HighEsgOfferEvaluated
    /\ sc_intent.esg_preferences = Preferences(JNum(700), TRUE, 0, 0)
    /\ sc_offer.esg_score = ESG(750, 1000, 1000, 900, "high")
    /\ sc_eval.esg_score = Points(30)
    /\ LowEsgTwinScore = 0

(***************************************************************************)
(* Properties of the company agent's offer handler                         *)
(***************************************************************************)
UnknownIntentOfferHandled ==
    /\ co_call = "handle_credit_offer"
    /\ co_message.valid
    /\ ~IntentKnown(active_intents, co_message.intent_id)

\* C16: an offer whose intent_id is not among the active intents is
\* answered with status success and an evaluation whose four scores are 0,
\* whose recommendation is "reject" and whose reasoning is not empty.
C16_UnknownIntentZeroReject ==
    UnknownIntentOfferHandled =>
        /\ co_response.status = "success"
        /\ co_response.evaluation.produced
        /\ co_response.evaluation.total_score = 0
        /\ co_response.evaluation.financial_score = 0
        /\ co_response.evaluation.esg_score = 0
        /\ co_response.evaluation.terms_score = 0
        /\ co_response.evaluation.recommendation = "reject"
        /\ co_response.evaluation.reasoning # ""

C16_Witness ==
    /\ UnknownIntentOfferHandled
    /\ Len(active_intents) = 1
    /\ co_message.intent_id = 2
    /\ co_message.body = Offer(BaseFinancials, BaseESG, BaseTerms)
    /\ co_response.status = "success"
    /\ co_response.evaluation = NoMatchEvaluation

(***************************************************************************)
(* Properties of evaluate_offers                                           *)
(***************************************************************************)
OfferListEvaluated ==
    rk_pc = "done" /\ \A k \in 1..Len(rk_offers) : rk_offers[k].valid

\* C17 (as claimed): for a list of offers, evaluate_offers returns a list
\* holding exactly one evaluation per input offer, in which total_score
\* never increases from one element to the next.
C17_OnePerOfferDescending ==
    OfferListEvaluated =>
        /\ rk_result.kind = "list"
        /\ Len(rk_result.evaluations) = Len(rk_offers)
        /\ \A k \in 1..Len(rk_offers) :
              Cardinality({j \in 1..Len(rk_result.evaluations) :
                              rk_result.evaluations[j].offer_id = k}) = 1
        /\ \A j \in 1..(Len(rk_result.evaluations) - 1) :
              rk_result.evaluations[j].evaluation.total_score
                  >= rk_result.evaluations[j + 1].evaluation.total_score

(***************************************************************************)
(* Properties of the rate of a generated offer                             *)
(***************************************************************************)
\* The rate the pricing rule gives, in hundredths of a percent, for a base
\* rate, a risk rating, the three ESG scores (hundredths of the 0-10 scale) and
\* an ESG multiplier (hundredths).  The average of E, S, G on the 0-100 scale
\* is (E + S + G) / 30, so the rule is stated multiplied by 3000.
RiskAdjustment(rating) ==
    CASE rating = "low" -> -25
      [] rating = "high" -> 50
      [] OTHER -> 0
EsgMultipliers == {70, 80, 90}
RuleRate3000(base, rating, esg, m) ==
    3000 * (base + RiskAdjustment(rating))
        - (3000 - (esg.environmental_score + esg.social_score
                     + esg.governance_score)) * m
IsRuleRate(rate, base, rating, esg, m) ==
    LET f == RuleRate3000(base, rating, esg, m)
    IN IF f <= 3000 * MinRate THEN rate = MinRate
       ELSE IF f > 3000 * MaxRate THEN rate = MaxRate
       ELSE 3000 * rate = f

\* C18 (as claimed): the carbon_adjusted_rate of a generated offer is
\* base_rate + risk_adjustment - esg_adjustment clamped to 0.1..50, with
\* risk_adjustment -0.25, 0 or +0.50 for the rating low, medium or high and
\* esg_adjustment = (100 - avg(E,S,G)) / 100 x esg_multiplier, for the base
\* rate of the bank or of the offer and one of the configured multipliers.
C18_RateFollowsPricingRule ==
    bk_pc = "done" =>
        \E m \in EsgMultipliers :
           \E base \in {bk_bank.min_interest_rate, bk_offer.interest_rate} :
              IsRuleRate(bk_offer.carbon_adjusted_rate, base,
                         bk_risk.overall_risk_rating, bk_esg, m)

(***************************************************************************)
(* Properties of the order of the stages of process_credit_intent          *)
(***************************************************************************)
StageRank(pc) ==
    CASE pc = "idle" -> 0
      [] pc = "identity" -> 1
      [] pc = "risk" -> 2
      [] pc = "esg" -> 3
      [] pc = "pricing" -> 4
      [] pc = "offer" -> 5
      [] OTHER -> 6
\* What each stage leaves behind.
RiskRan == bk_data.credit_bureau # "unfetched"
EsgRan == bk_data.esg_regulator # "unfetched"
PricingRan == bk_pricing # NoPricing \/ bk_llm.pricing # "none"
             \/ bk_error = "pricing:credit_bureau_data is None"
             \/ bk_error = "pricing:not_object" \/ bk_error = "pricing:compare"
             \/ bk_error = "pricing:format"
AssemblyRan == bk_offer # NoOffer \/ bk_error \in {"offer:exposure_parse",
                   "offer:exposure_compare", "offer:schema"}
\* A step of one run of process_credit_intent: the position moves to the next
\* stage, or to "failed" when the stage raised.
StageStep ==
    /\ bk_pc \notin {"done", "failed"}
    /\ \/ StageRank(bk_pc') = StageRank(bk_pc) + 1
       \/ bk_pc' = "failed" /\ bk_pc # "idle"

RuleFinancialScore(offer, intent) ==
    LET s1 == IF 10 * offer.approved_amount <= 8 * intent.amount THEN 100 - 30
              ELSE IF 10 * offer.approved_amount <= 9 * intent.amount THEN 100 - 15
              ELSE 100
        s2 == IF offer.interest_rate > 800 THEN s1 - 30
              ELSE IF offer.interest_rate > 600 THEN s1 - 15
              ELSE IF offer.interest_rate > 400 THEN s1 - 5
              ELSE s1
        s3 == IF 100 * offer.processing_fee > offer.approved_amount THEN s2 - 20
              ELSE IF 200 * offer.processing_fee > offer.approved_amount THEN s2 - 10
              ELSE s2
    IN IF s3 < 0 THEN 0 ELSE s3

\* C21 (as claimed): the intent-aware financial score is 100 minus 30 / 15
\* for a shortfall of at least 20% / 10%, minus 30 / 15 / 5 for a rate above
\* 8% / 6% / 4%, minus 20 / 10 for a fee above 1% / 0.5% of the approved
\* amount, floored at 0, the exact shortfalls of 20% and 10% included.
C21_FinancialScoreRule ==
    (EvaluationProduced /\ sc_evaluator = "wfap") =>
        sc_eval.financial_score = Points(RuleFinancialScore(sc_offer, sc_intent))

(***************************************************************************)
(* Properties of the ESG scores of an offer                                *)
(***************************************************************************)
EsgStagePassed == bk_pc \in {"pricing", "offer", "done"}
EsgScoresOf(e) ==
    <<e.environmental_score, e.social_score, e.governance_score, e.overall_score>>
NeutralScores == <<750, 700, 800, 750>>
\* The collaborator answered an object holding a numeric score outside both
\* the 0-10 and the 0-100 scale.
OutOfScaleAnswer ==
    /\ bk_llm.esg = "object"
    /\ \E i \in 1..4 : /\ IsNum(bk_llm.scores[i])
                       /\ (bk_llm.scores[i].n < 0 \/ bk_llm.scores[i].n > 10000)

\* C22 (as claimed): the four ESG scores kept for an offer lie in 0..10, a
\* score the collaborator left out takes its neutral default (7.5, 7.0, 8.0,
\* 7.5), and an answer with a score outside the expected scales does not make
\* the ESG stage raise.
C22_EsgScoresNormalized ==
    /\ EsgStagePassed =>
          /\ \A i \in 1..4 : EsgScoresOf(bk_esg)[i] >= 0 /\ EsgScoresOf(bk_esg)[i] <= 1000
          /\ \A i \in 1..4 :
                (bk_llm.esg = "prose" \/ bk_llm.scores[i] = JAbsent)
                    => EsgScoresOf(bk_esg)[i] = NeutralScores[i]
          /\ bk_pc = "done" => bk_offer.esg_score = bk_esg
    /\ OutOfScaleAnswer => bk_error # "esg:schema"

(***************************************************************************)
(* Properties of omitted and null numeric fields                           *)
(***************************************************************************)
Missing(j) == j = JAbsent \/ j = JNull
\* The pricing answer is an object with a numeric field omitted or null.
PricingFieldMissing ==
    /\ bk_llm.pricing = "object"
    /\ \E j \in {bk_llm.base, bk_llm.radj, bk_llm.eadj, bk_llm.rate} : Missing(j)
\* The risk answer is an object with the exposure omitted or null.
ExposureMissing ==
    /\ bk_llm.risk = "object"
    /\ bk_llm.exposure.t # "obj" /\ Missing(bk_llm.exposure)
ConfidenceMissing == bk_llm.risk = "object" /\ Missing(bk_llm.confidence)

\* C23 (as claimed): when the pricing or risk answer omits a numeric field or
\* gives it as null, the field takes its default before it is used: no stage
\* raises on its value, and what the offer is built from holds a number in
\* every such field.
C23_MissingFieldsDefaulted ==
    /\ ExposureMissing
          => bk_error \notin {"risk:exposure_format", "offer:exposure_compare"}
    /\ (bk_llm.pricing = "object" /\ Missing(bk_llm.rate))
          => bk_error # "pricing:compare"
    /\ PricingFieldMissing => bk_error # "pricing:format"
    /\ ((ExposureMissing \/ ConfidenceMissing \/ PricingFieldMissing)
        /\ bk_pc = "done")
          => /\ IsNum(bk_risk.confidence_score)
             /\ IsNum(bk_pricing.base_rate)
             /\ IsNum(bk_pricing.risk_adjustment)
             /\ IsNum(bk_pricing.esg_adjustment)
             /\ IsNum(bk_pricing.carbon_adjusted_rate)
             /\ IsNum(bk_pricing.pricing_confidence)

(***************************************************************************)
(* Properties of the order of the returned offers                          *)
(***************************************************************************)
BroadcastReturnedOffers == bc_pc = "returned" /\ Len(bc_offers) >= 2
\* The bank whose response completed first is among the banks that offered.
FirstDoneOffered == \E i \in 1..Len(bc_offers) : bc_offers[i].bank = bc_first

\* C24 (as claimed): the offers of the returned list stand in the order in
\* which the banks' responses completed; in particular, when the bank that
\* completed first gave an offer, that offer is the first of the list.
C24_OffersInCompletionOrder ==
    (BroadcastReturnedOffers /\ FirstDoneOffered) => bc_offers[1].bank = bc_first

\* C24 (amended): the offers of the returned list stand in the order in which
\* the requests were issued, the order of discovered_banks, whatever the order
\* in which the responses completed.
C24_OffersInRequestOrder ==
    BroadcastReturnedOffers =>
        \A i \in 1..Len(bc_offers), j \in 1..Len(bc_offers) :
            i < j => bc_offers[i].bank < bc_offers[j].bank

\* Banks 1 and 3 answered with offers, bank 3 before every other bank.
C24_Witness ==
    /\ BroadcastReturnedOffers
    /\ bc_coord = "agent"
    /\ bc_first = 3
    /\ Len(bc_offers) = 2
    /\ bc_offers[1].bank = 1
    /\ bc_offers[2].bank = 3

(***************************************************************************)
(* Properties of the company agent's offer cache                           *)
(***************************************************************************)
IsPrefix(short, long) ==
    /\ Len(short) <= Len(long)
    /\ \A i \in 1..Len(short) : short[i] = long[i]

\* C25: when an offer message is handled, every list of received_offers
\* keeps what it held and grows at most at its end, every offer stored under
\* key k names intent k, the lists of the intents the offer does not name are
\* unchanged, and so is active_intents.
C25_CacheKeyedAppendOnly ==
    [][ co_call' = "handle_credit_offer" =>
          /\ \A k \in OfferIntentIds :
                /\ IsPrefix(received_offers[k], received_offers'[k])
                /\ \A i \in 1..Len(received_offers'[k]) :
                      received_offers'[k][i].intent_id = k
                /\ k # co_message'.intent_id =>
                      received_offers'[k] = received_offers[k]
          /\ active_intents' = active_intents
      ]_vars

\* Two offers for one intent and one for another have been stored.
C25_Witness ==
    /\ co_call = "handle_credit_offer"
    /\ \E k \in OfferIntentIds :
          /\ Len(received_offers[k]) = 2
          /\ received_offers[k][1] # received_offers[k][2]
    /\ Len(active_intents) >= 1

(***************************************************************************)
(* Termination of a broadcast                                              *)
(***************************************************************************)
BroadcastRunning == bc_pc \in {"validating", "discovering", "creating", "gathering"}
BroadcastEnded == bc_pc \in {"returned", "raised"}

\* C26: no bank is sent more than one request; when the broadcast has gone
\* through its fan-out and returned, every discovered bank was attempted
\* exactly once and its attempt settled as an offer, an error or a timeout;
\* and every broadcast that was started ends, provided every pending call
\* ends with a response, a failure or its timeout.
C26_BroadcastReturns ==
    /\ [](\A b \in Banks : bc_sent[b] <= 1)
    /\ [](bc_pc = "returned" =>
            \A b \in DiscoveredSet :
                /\ bc_tasks[b] = "settled"
                /\ bc_sent[b] = 1
                /\ bc_resp[b].kind \in RespKinds)
    /\ (BroadcastRunning ~> BroadcastEnded)

\* A broadcast returned after one bank timed out, one failed and one offered.
C26_Witness ==
    /\ bc_pc = "returned"
    /\ Len(discovered_banks) = 3
    /\ \A b \in DiscoveredSet : bc_tasks[b] = "settled" /\ bc_sent[b] = 1
    /\ \E b \in DiscoveredSet : bc_resp[b].kind = "timeout"
    /\ \E b \in DiscoveredSet : bc_resp[b].kind = "neterr"
    /\ \E b \in DiscoveredSet : bc_resp[b].kind = "offer"
    /\ Len(bc_offers) = 1

(***************************************************************************)
(* Properties of evaluate_and_select_best_offer                            *)
(***************************************************************************)
\* The total score the intent-agnostic evaluator gives the offer at place k.
SelectTotal(k) ==
    evaluate_single_offer(rk_offers[k].body, "collaborator text").total_score

\* C27 (as claimed): for a list of offers, the result names as best_offer an
\* offer of the list whose evaluation has the greatest total score of the
\* list, and total_offers_received is the length of the list; for the empty
\* list the result is an error value.
C27_BestOfferHasMaxTotal ==
    rk_pc = "selected" =>
        IF rk_offers = <<>>
        THEN rk_selection.kind = "error"
        ELSE /\ rk_selection.kind = "selected"
             /\ rk_selection.best_offer \in 1..Len(rk_offers)
             /\ \A k \in 1..Len(rk_offers) :
                   rk_selection.evaluation.total_score >= SelectTotal(k)
             /\ rk_selection.total_offers_received = Len(rk_offers)

(***************************************************************************)
(* Properties of the intent-agnostic financial score                       *)
(***************************************************************************)
\* The evaluated offer satisfies the CreditOffer constraints.
WellFormedOfferScored ==
    /\ sc_pc = "done"
    /\ sc_evaluator = "skills"
    /\ sc_offer.carbon_adjusted_rate > 0
    /\ sc_offer.approved_amount > 0
    /\ sc_offer.processing_fee >= 0

\* C28 (as claimed): for every offer that satisfies the CreditOffer
\* constraints the intent-agnostic financial score is in 0..100, and the
\* evaluation is produced rather than an error.
C28_AgnosticFinancialScoreInRange ==
    WellFormedOfferScored =>
        /\ skills_calculate_financial_score(sc_offer) >= 0
        /\ skills_calculate_financial_score(sc_offer) <= Points(100)
        /\ sc_eval.produced

(***************************************************************************)
(* Properties of the registry's stored bank set                            *)
(***************************************************************************)
SuccessfulRequests(id) ==
    {r \in Requests : reg_req[r].bank_id = id /\ reg_req[r].answer = "success"}

\* C29 (as claimed): whatever the interleaving of the bankRegister handlers,
\* every bank whose registration was answered with success is in the stored
\* set, and a bank_id is registered successfully at most once, the stored
\* data being that of this registration.
C29_RegisteredBanksStored ==
    \A id \in RegBankIds :
        /\ Cardinality(SuccessfulRequests(id)) <= 1
        /\ \A r \in SuccessfulRequests(id) : reg_file[id] = r

(***************************************************************************)
(* Properties of A2A message handling                                      *)
(***************************************************************************)
\* The checks a message fails at an agent, in the order they are made.
FailedChecks(agent, message) ==
    {c \in {"UNSUPPORTED_MESSAGE_TYPE", "INVALID_RECIPIENT", "INVALID_ROLE"} :
        \/ c = "UNSUPPORTED_MESSAGE_TYPE"
           /\ message.message_type \notin {"discovery", "credit_intent", "credit_offer"}
        \/ c = "INVALID_RECIPIENT"
           /\ message.recipient_id # (IF agent = "company" THEN "company-c1" ELSE "bank-b1")
        \/ c = "INVALID_ROLE" /\ message.recipient_role # agent}
SeqRange(q) == {q[k] : k \in 1..Len(q)}

\* A step in which handle_message of the company or of the bank ran.
HandleMessageStep ==
    \/ a2a_agent' = "company" /\ co_call' = "handle_message"
    \/ a2a_agent' = "bank" /\ UNCHANGED companyVars

\* The agent acted on the message: the bank entered offer generation, the
\* company entered offer handling or stored an offer.
ActedOnMessage ==
    \/ a2a_result'.handler \in {"credit_intent", "credit_offer"}
    \/ received_offers' # received_offers

\* C30: an agent acts on a message only when its type is supported and its
\* recipient_id and recipient_role are the agent's; any other message is
\* answered with status error and the list of exactly the failed checks,
\* and leaves the agent's intents and stored offers as they were.
C30_ActsOnlyOnValidMessages ==
    [][ HandleMessageStep =>
          LET failed == FailedChecks(a2a_agent', a2a_message')
          IN /\ ActedOnMessage => failed = {}
             /\ failed # {} =>
                   /\ a2a_result'.status = "error"
                   /\ SeqRange(a2a_result'.errors) = failed
                   /\ Len(a2a_result'.errors) = Cardinality(failed)
                   /\ UNCHANGED <<active_intents, received_offers>> ]_vars

\* A company holding an intent and an offer has just refused a message
\* that failed all three checks.
C30_Witness ==
    /\ a2a_agent = "company"
    /\ a2a_message = Message("offer_evaluation", "bank-b1", "bank")
    /\ a2a_result.status = "error"
    /\ Len(a2a_result.errors) = 3
    /\ Len(active_intents) = 1
    /\ StoredOffers = 1

====
